---- MODULE Spec2Model ----
(***************************************************************************)
(* SnapTick backend: the attendance ledger (Backend/models/attendance.js), *)
(* the student documents with their bounded list of face descriptors       *)
(* (Backend/models/student.js) and the request handlers of                 *)
(* Backend/routes/attendance.js and Backend/routes/enroll.js that write    *)
(* them.  A handler is an async function: it runs atomically between two   *)
(* awaits, so every action below is one database round trip together with  *)
(* the synchronous code that follows it up to the next await.  Requests    *)
(* run in the slots of Reqs and interleave at those awaits.                *)
(*                                                                         *)
(* Left out: student and teacher names, image files, the drawing of the    *)
(* annotated image (none of them is read by a condition of the handlers    *)
(* modelled here).                                                         *)
(***************************************************************************)
EXTENDS Integers, Sequences, FiniteSets, Bags, TLC

VARIABLES
    now,        \* the server clock (new Date()), in ticks
    classrooms, \* Classroom collection: classroom id -> [teacherId]
    students,   \* Student collection: student id -> document
    ledger,     \* Attendance collection: a bag of attendance documents
    req,        \* the request running in each slot, with its local variables
    started,    \* number of requests accepted so far
    putHist,    \* embeddings added by successive photo re-submissions (FifoSpec)
    session,    \* the teacher's AttendanceUploader component: its React state
    probe       \* a match of the embedding service as /upload reads it

vars == <<now, classrooms, students, ledger, req, started, putHist, session, probe>>

----------------------------------------------------------------------------
(* Program constant and the bounds of the model *)

MAX_TRAINING_SAMPLES == 10

TicksPerDay == 2    \* clock ticks in one calendar day
MaxTime == 2        \* last value of the clock
MaxRequests == 2    \* requests accepted in one behaviour
MaxBatch == 2       \* confirmations in one POST /attendance/confirm body
MaxPuts == 12       \* successive photo re-submissions in FifoSpec
MaxFaces == 2       \* faces the embedding service finds in one group photo

Reqs == {"a", "b"}
Teachers == {"t1", "t2"}
\* the authenticated teachers whose requests are followed (req.teacher.id)
Requesters == {"t1"}
ClassroomIds == {"c1", "c2"}
\* what a request can send as classroomId: an id, a well-formed id of no
\* classroom ("c0"), a string that is no ObjectId ("malformed"), nothing ("none")
ClassroomRefs == ClassroomIds \cup {"c0", "malformed", "none"}
StudentIds == {"s1", "s2", "s3"}
\* what a confirmation can send as studentId: an id, a well-formed id of no
\* student ("s0"), a string that is no ObjectId ("malformed"), nothing ("none")
StudentRefs == StudentIds \cup {"s0", "malformed", "none"}
Rolls == {"r1", "r2"}
\* embeddings the embedding service or a confirmation can deliver
Embeddings == {21, 22}
\* the embedding field of a confirmation: a vector, an array that is no vector
\* of numbers (BadVector), or missing (NoEmbedding)
NoEmbedding == 0
BadVector == 0 - 1
EmbeddingRefs == Embeddings \cup {BadVector, NoEmbedding}
Actions == {"confirm", "correct", "skip"}
Times == 0..MaxTime

----------------------------------------------------------------------------
(* Dates: setHours(0,0,0,0) and setHours(23,59,59,999) *)

startOfDayKeepsTime(t) == t

startOfDay(t) == t - (t % TicksPerDay)

endOfDay(t) == startOfDay(t) + (TicksPerDay - 1)

----------------------------------------------------------------------------
(* Attendance collection *)

\* studentName is the name the record was created with; the name of an
\* enrolled student is written as the id of the student
AttendanceDoc(studentName, rollNo, date, classroomId, teacherId) ==
    [studentName |-> studentName, rollNo |-> rollNo, date |-> date,
     classroomId |-> classroomId, teacherId |-> teacherId]

\* the unique index {rollNo, classroomId, teacherId, date}: would inserting
\* doc raise the duplicate-key error 11000 ?
DuplicateKeyNoIndex(L, doc) == FALSE

DuplicateKey(L, doc) ==
    \E d \in BagToSet(L) :
        /\ d.rollNo = doc.rollNo /\ d.classroomId = doc.classroomId
        /\ d.teacherId = doc.teacherId /\ d.date = doc.date

AttendanceInsert(L, doc) == L (+) SetToBag({doc})

\* Attendance.find({date: {$gte, $lte}, teacherId, classroomId})
AttendanceFind(L, from, to, teacherId, classroomId) ==
    {d \in BagToSet(L) : /\ d.date >= from /\ d.date <= to
                         /\ d.teacherId = teacherId
                         /\ d.classroomId = classroomId}

\* Attendance.findOne({rollNo, date: {$gte, $lte}, teacherId, classroomId})
AttendanceFindOne(L, rollNo, from, to, teacherId, classroomId) ==
    {d \in AttendanceFind(L, from, to, teacherId, classroomId) : d.rollNo = rollNo}

----------------------------------------------------------------------------
(* verifyClassroom *)

\* is the id a string Mongoose can cast to an ObjectId ?  findById and findOne
\* reject with a CastError when it is not
CastsToObjectId(id) == id # "malformed"

verifyClassroomAnyOwner(classroomId, teacherId) ==
    classroomId # "none" /\ classroomId \in DOMAIN classrooms

verifyClassroom(classroomId, teacherId) ==
    /\ classroomId # "none"
    /\ classroomId \in DOMAIN classrooms
    /\ classrooms[classroomId].teacherId = teacherId

----------------------------------------------------------------------------
(* Requests *)

\* a slot: pc is the await the handler is suspended at; status is the response;
\* owned records whether the classroom named by the request existed and
\* belonged to the requesting teacher when it was looked up; writes counts the
\* documents the request has inserted, updated or deleted
Idle == [pc |-> "idle", kind |-> "none", status |-> "none", owned |-> FALSE,
         writes |-> 0]

Owned(c, t) == c \in DOMAIN classrooms /\ classrooms[c].teacherId = t

\* a free slot takes the next request
CanStart(r) ==
    /\ req[r].pc \in {"idle", "done"}
    /\ started < MaxRequests


\* the response is sent: the handler is over and its local variables are gone
Respond(q, status) ==
    [pc |-> "done", kind |-> q.kind, status |-> status, owned |-> q.owned,
     writes |-> q.writes]

----------------------------------------------------------------------------
(* POST /attendance/mark *)

\* the name the dashboard sends with a roll number: the name of the student
\* who holds it in the classroom
RosterName(rollNumber, classroomId) ==
    LET S == {s \in DOMAIN students :
                /\ students[s].rollNumber = rollNumber
                /\ students[s].classroomId = classroomId}
    IN IF S = {} THEN "unlisted" ELSE CHOOSE s \in S : TRUE

MarkStart(r) ==
    /\ CanStart(r)
    /\ \E t \in Requesters, c \in ClassroomRefs, roll \in Rolls, date \in Times :
         LET q == [pc |-> "m_find", kind |-> "mark", status |-> "none",
                   owned |-> Owned(c, t), writes |-> 0, teacherId |-> t,
                   classroomId |-> c, rollNumber |-> roll,
                   name |-> RosterName(roll, c),
                   startDate |-> startOfDay(date), endDate |-> endOfDay(date)]
         IN req' = [req EXCEPT ![r] =
                      IF c # "none" /\ ~CastsToObjectId(c) THEN Respond(q, "error")
                      ELSE IF verifyClassroom(c, t) THEN q
                      ELSE Respond(q, "rejected")]
    /\ started' = started + 1
    /\ UNCHANGED <<now, classrooms, students, ledger, putHist, session, probe>>

MarkFind(r) ==
    LET q == req[r]
        existingRecord == AttendanceFindOne(ledger, q.rollNumber, q.startDate,
                                            q.endDate, q.teacherId, q.classroomId)
    IN /\ q.pc = "m_find"
       /\ req' = [req EXCEPT ![r] =
                    IF existingRecord # {} THEN Respond(q, "already")
                    ELSE [q EXCEPT !.pc = "m_save"]]
       /\ UNCHANGED <<now, classrooms, students, ledger, started, putHist, session, probe>>

MarkSave(r) ==
    LET q == req[r]
        newRecord == AttendanceDoc(q.name, q.rollNumber, q.startDate,
                                   q.classroomId, q.teacherId)
    IN /\ q.pc = "m_save"
       /\ IF DuplicateKey(ledger, newRecord)
          THEN /\ req' = [req EXCEPT ![r] = Respond(q, "already")]
               /\ UNCHANGED ledger
          ELSE /\ ledger' = AttendanceInsert(ledger, newRecord)
               /\ req' = [req EXCEPT ![r] =
                            Respond([q EXCEPT !.writes = @ + 1], "created")]
       /\ UNCHANGED <<now, classrooms, students, started, putHist, session, probe>>

----------------------------------------------------------------------------
(* DELETE /attendance/unmark *)

UnmarkStart(r) ==
    /\ CanStart(r)
    /\ \E t \in Requesters, c \in ClassroomRefs, roll \in Rolls, date \in Times :
         LET q == [pc |-> "u_delete", kind |-> "unmark", status |-> "none",
                   owned |-> Owned(c, t), writes |-> 0, teacherId |-> t,
                   classroomId |-> c, rollNumber |-> roll,
                   startDate |-> startOfDay(date), endDate |-> endOfDay(date)]
         IN req' = [req EXCEPT ![r] =
                      IF c # "none" /\ ~CastsToObjectId(c) THEN Respond(q, "error")
                      ELSE IF verifyClassroom(c, t) THEN q
                      ELSE Respond(q, "rejected")]
    /\ started' = started + 1
    /\ UNCHANGED <<now, classrooms, students, ledger, putHist, session, probe>>

\* Attendance.findOneAndDelete: removes one matching document
UnmarkDelete(r) ==
    LET q == req[r]
        found == AttendanceFindOne(ledger, q.rollNumber, q.startDate, q.endDate,
                                   q.teacherId, q.classroomId)
    IN /\ q.pc = "u_delete"
       /\ IF found = {}
          THEN /\ req' = [req EXCEPT ![r] = Respond(q, "notfound")]
               /\ UNCHANGED ledger
          ELSE \E d \in found :
                 /\ ledger' = ledger (-) SetToBag({d})
                 /\ req' = [req EXCEPT ![r] =
                              Respond([q EXCEPT !.writes = @ + 1], "ok")]
       /\ UNCHANGED <<now, classrooms, students, started, putHist, session, probe>>

----------------------------------------------------------------------------
(* Student collection *)

\* Student.findOne({_id: studentId, classroomId})
StudentFindOne(studentId, classroomId) ==
    IF studentId \in DOMAIN students /\ students[studentId].classroomId = classroomId
    THEN {studentId} ELSE {}

\* student.faceDescriptors.push(embedding); student.descriptorCount = length;
\* student.save(): the array grows by an atomic $push on the stored document,
\* descriptorCount is $set to the length the handler computed
StudentPushSave(id, embedding, descriptorCount) ==
    [students EXCEPT ![id].faceDescriptors = Append(@, embedding),
                     ![id].descriptorCount = descriptorCount,
                     ![id].v = @ + 1]

----------------------------------------------------------------------------
(* POST /attendance/confirm *)

\* one element of req.body.confirmations.  A confirmation that does not ask
\* for training carries the embedding of its face all the same.
Decisions ==
    {d \in [studentId : StudentRefs, action : Actions, addToTraining : BOOLEAN,
            embedding : EmbeddingRefs] :
        ~d.addToTraining => d.embedding = 21}

\* confirmations that only mark attendance
AttendanceDecisions == {d \in Decisions : ~d.addToTraining}

\* line 374: the roll number is neither in uniqueRollNumbers nor in
\* existingRollNumbers
ShouldMarkIgnoringExisting(q, rollNumber) == rollNumber \notin q.uniqueRollNumbers

ShouldMark(q, rollNumber) ==
    rollNumber \notin q.uniqueRollNumbers /\ rollNumber \notin q.existingRollNumbers

\* line 400: addToTraining && embedding && Array.isArray(embedding)
WantsTraining(d) == d.addToTraining /\ d.embedding # NoEmbedding

\* the loop body is over for this confirmation
NextConfirmation(q) == [q EXCEPT !.pc = "c_loop"]

\* lines 399-422 as far as the next await: q.doc is the loaded student, q.emb
\* the embedding to add (NoEmbedding when no training was asked for).  push() casts
\* the embedding and throws on an array that is no vector; the catch of line
\* 419 swallows that.
TrainingBlockNoCap(q) ==
    IF q.emb = NoEmbedding THEN NextConfirmation([q EXCEPT !.trainRes = "none"])
    ELSE IF q.emb = BadVector
         THEN NextConfirmation([q EXCEPT !.trainRes = "failed"])
    ELSE [q EXCEPT !.pc = "c_save"]

TrainingBlockRethrow(q) ==
    IF q.emb = NoEmbedding THEN NextConfirmation([q EXCEPT !.trainRes = "none"])
    ELSE IF Len(q.doc.faceDescriptors) >= MAX_TRAINING_SAMPLES
         THEN NextConfirmation([q EXCEPT !.trainRes = "full"])
    ELSE IF q.emb = BadVector
         THEN Respond([q EXCEPT !.trainRes = "failed"], "error")
    ELSE [q EXCEPT !.pc = "c_save"]

TrainingBlock(q) ==
    IF q.emb = NoEmbedding THEN NextConfirmation([q EXCEPT !.trainRes = "none"])
    ELSE IF Len(q.doc.faceDescriptors) >= MAX_TRAINING_SAMPLES
         THEN NextConfirmation([q EXCEPT !.trainRes = "full"])
    ELSE IF q.emb = BadVector
         THEN NextConfirmation([q EXCEPT !.trainRes = "failed"])
    ELSE [q EXCEPT !.pc = "c_save"]

\* lines 313-330: the body is read and the classroom verified
ConfirmStart(r) ==
    /\ CanStart(r)
    /\ \E t \in Requesters, c \in ClassroomRefs, n \in 0..MaxBatch :
         LET q == [pc |-> "c_find", kind |-> "confirm", status |-> "none",
                   owned |-> Owned(c, t), writes |-> 0, teacherId |-> t,
                   classroomId |-> c, left |-> n]
         IN req' = [req EXCEPT ![r] =
                      IF c # "none" /\ ~CastsToObjectId(c) THEN Respond(q, "error")
                      ELSE IF verifyClassroom(c, t) THEN q
                      ELSE Respond(q, "rejected")]
    /\ started' = started + 1
    /\ UNCHANGED <<now, classrooms, students, ledger, putHist, session, probe>>

\* lines 332-351: today's bounds and the roll numbers already marked today.
\* attRes and trainRes record what the loop body did for the confirmation it
\* handled last; badRef tells whether a confirmation named no student of the
\* classroom
ConfirmFind(r) ==
    LET q == req[r]
        startDate == startOfDay(now)
        endDate == endOfDay(now)
        existingRecords == AttendanceFind(ledger, startDate, endDate, q.teacherId,
                                          q.classroomId)
    IN /\ q.pc = "c_find"
       /\ req' = [req EXCEPT ![r] =
                    [q EXCEPT !.pc = "c_loop"] @@
                    [attendanceDate |-> startDate,
                     existingRollNumbers |-> {d.rollNo : d \in existingRecords},
                     uniqueRollNumbers |-> {},
                     markedStudents |-> <<>>,
                     trainedCount |-> 0,
                     doc |-> [id |-> "none"],
                     emb |-> NoEmbedding,
                     attRes |-> "none",
                     trainRes |-> "none",
                     badRef |-> FALSE]]
       /\ UNCHANGED <<now, classrooms, students, ledger, started, putHist, session, probe>>

\* line 425: res.json({success: true, markedCount, trainedCount, markedStudents})
ConfirmRespond(q, status) ==
    Respond(q, status) @@
    [left |-> q.left, badRef |-> q.badRef, markedStudents |-> q.markedStudents,
     trainedCount |-> q.trainedCount]

\* lines 353-374: the next confirmation (one of D) is taken and its student
\* looked up; an exception of Student.findOne reaches the catch of line 433
ConfirmNext(r, D) ==
    LET q == req[r]
    IN /\ q.pc = "c_loop"
       /\ IF q.left = 0
          THEN req' = [req EXCEPT ![r] = ConfirmRespond(q, "ok")]
          ELSE \E d \in D :
            LET q1 == [q EXCEPT !.left = @ - 1, !.doc = [id |-> "none"],
                                !.emb = NoEmbedding, !.attRes = "none",
                                !.trainRes = "none"]
                bad == [q1 EXCEPT !.badRef = TRUE]
                found == StudentFindOne(d.studentId, q.classroomId)
                student == students[d.studentId]
                q2 == [q1 EXCEPT !.doc = [id |-> d.studentId,
                                          rollNumber |-> student.rollNumber,
                                          faceDescriptors |-> student.faceDescriptors],
                                 !.emb = IF WantsTraining(d) THEN d.embedding
                                         ELSE NoEmbedding]
            IN req' = [req EXCEPT ![r] =
                 IF d.action = "skip" \/ d.studentId = "none" THEN q1
                 ELSE IF ~CastsToObjectId(d.studentId) THEN ConfirmRespond(bad, "error")
                 ELSE IF found = {} THEN bad
                 ELSE IF ShouldMark(q, student.rollNumber)
                      THEN [q2 EXCEPT !.pc = "c_create", !.attRes = "pending"]
                 ELSE TrainingBlock([q2 EXCEPT !.attRes = "known"])]
       /\ UNCHANGED <<now, classrooms, students, ledger, started, putHist, session, probe>>

\* lines 375-397 with the student listed before Attendance.create is tried
ConfirmCreateListingFirst(r) ==
    LET q == req[r]
        roll == q.doc.rollNumber
        newRecord == AttendanceDoc(q.doc.id, roll, q.attendanceDate, q.classroomId,
                                   q.teacherId)
        listed == [q EXCEPT !.markedStudents = Append(@, roll)]
    IN /\ q.pc = "c_create"
       /\ IF DuplicateKey(ledger, newRecord)
          THEN /\ UNCHANGED ledger
               /\ req' = [req EXCEPT ![r] = TrainingBlock(
                            [listed EXCEPT !.existingRollNumbers = @ \cup {roll},
                                           !.attRes = "dup"])]
          ELSE /\ ledger' = AttendanceInsert(ledger, newRecord)
               /\ req' = [req EXCEPT ![r] = TrainingBlock(
                            [listed EXCEPT !.uniqueRollNumbers = @ \cup {roll},
                                           !.existingRollNumbers = @ \cup {roll},
                                           !.attRes = "created",
                                           !.writes = @ + 1])]
       /\ UNCHANGED <<now, classrooms, students, started, putHist, session, probe>>

\* lines 375-397: Attendance.create and the duplicate-key catch; then the
\* training block up to its save
ConfirmCreate(r) ==
    LET q == req[r]
        roll == q.doc.rollNumber
        newRecord == AttendanceDoc(q.doc.id, roll, q.attendanceDate, q.classroomId,
                                   q.teacherId)
    IN /\ q.pc = "c_create"
       /\ IF DuplicateKey(ledger, newRecord)
          THEN /\ UNCHANGED ledger
               /\ req' = [req EXCEPT ![r] = TrainingBlock(
                            [q EXCEPT !.existingRollNumbers = @ \cup {roll},
                                      !.attRes = "dup"])]
          ELSE /\ ledger' = AttendanceInsert(ledger, newRecord)
               /\ req' = [req EXCEPT ![r] = TrainingBlock(
                            [q EXCEPT !.markedStudents = Append(@, roll),
                                      !.uniqueRollNumbers = @ \cup {roll},
                                      !.existingRollNumbers = @ \cup {roll},
                                      !.attRes = "created",
                                      !.writes = @ + 1])]
       /\ UNCHANGED <<now, classrooms, students, started, putHist, session, probe>>

\* lines 411-417: push, descriptorCount, student.save(), trainedCount++
ConfirmSave(r) ==
    LET q == req[r]
    IN /\ q.pc = "c_save"
       /\ students' = StudentPushSave(q.doc.id, q.emb,
                                      Len(q.doc.faceDescriptors) + 1)
       /\ req' = [req EXCEPT ![r] = NextConfirmation(
                    [q EXCEPT !.trainedCount = @ + 1, !.trainRes = "added",
                              !.writes = @ + 1])]
       /\ UNCHANGED <<now, classrooms, ledger, started, putHist, session, probe>>

----------------------------------------------------------------------------
(* PUT /enroll/:id and POST /enroll/:id/add-photo *)

\* the embedding service did not answer with an embedding
NoFace == 0 - 2

\* student.save() after faceDescriptors was assigned a new array: Mongoose
\* sends the array with $set, adds the loaded version __v to the filter and
\* throws a VersionError when no document matches
VersionConflict(id, v) == id \notin DOMAIN students \/ students[id].v # v

\* the unique index {rollNumber, classroomId} of the Student collection
RollTaken(id, rollNumber, classroomId) ==
    \E o \in DOMAIN students \ {id} :
        students[o].rollNumber = rollNumber /\ students[o].classroomId = classroomId

\* lines 645-653 of PUT /enroll/:id: the new descriptor list
putFaceDescriptorsNoEvict(faceDescriptors, newDescriptor) ==
    Append(faceDescriptors, newDescriptor)

putFaceDescriptors(faceDescriptors, newDescriptor) ==
    IF Len(faceDescriptors) = 0 THEN <<newDescriptor>>
    ELSE IF Len(faceDescriptors) >= MAX_TRAINING_SAMPLES
         THEN Append(Tail(faceDescriptors), newDescriptor)
    ELSE Append(faceDescriptors, newDescriptor)

\* Student.findById(id) and the ownership check, for the routes of /enroll/:id.
\* A request that carries a file has it stored by multer under a name made of
\* Date.now(): here the number of the request (q.file); the students of the
\* initial state were enrolled with image 0.
LoadStudent(q, id, t, next) ==
    IF ~CastsToObjectId(id) THEN Respond(q, "error")
    ELSE IF id \notin DOMAIN students THEN Respond(q, "notfound")
    ELSE IF students[id].teacherId # t THEN Respond(q, "forbidden")
    ELSE [q EXCEPT !.pc = next] @@
         [doc |-> [id |-> id, rollNumber |-> students[id].rollNumber,
                   classroomId |-> students[id].classroomId,
                   faceDescriptors |-> students[id].faceDescriptors,
                   v |-> students[id].v]]

\* lines 586-610; RollRefs is what the requests send as rollNumber
PutStart(r, RollRefs) ==
    /\ CanStart(r)
    /\ \E t \in Requesters, id \in StudentRefs \ {"none"}, roll \in RollRefs,
          hasFile \in BOOLEAN :
         LET q == [pc |-> "p_start", kind |-> "put", status |-> "none",
                   owned |-> FALSE, writes |-> 0, rollNumber |-> roll,
                   hasFile |-> hasFile, file |-> started + 1]
         IN req' = [req EXCEPT ![r] =
                      IF roll = "none" THEN Respond(q, "rejected")
                      ELSE LoadStudent(q, id, t, "p_dup")]
    /\ started' = started + 1
    /\ UNCHANGED <<now, classrooms, students, ledger, putHist, session, probe>>

\* lines 612-657 with the name and roll number saved before the embedding
\* service is called
PutDupSavingFirst(r) ==
    LET q == req[r]
    IN /\ q.pc = "p_dup"
       /\ IF RollTaken(q.doc.id, q.rollNumber, q.doc.classroomId)
          THEN req' = [req EXCEPT ![r] = Respond(q, "conflict")] /\ UNCHANGED students
          ELSE IF ~q.hasFile
          THEN req' = [req EXCEPT ![r] = [q EXCEPT !.pc = "p_save"]]
               /\ UNCHANGED students
          ELSE /\ students' = [students EXCEPT ![q.doc.id].rollNumber = q.rollNumber]
               /\ \E e \in Embeddings \cup {NoFace} :
                    req' = [req EXCEPT ![r] =
                       IF e = NoFace THEN Respond(q, "noface")
                       ELSE [q EXCEPT !.pc = "p_save",
                                      !.doc.faceDescriptors = putFaceDescriptors(@, e)]]
       /\ UNCHANGED <<now, classrooms, ledger, started, putHist, session, probe>>

\* lines 612-657: the duplicate roll number check, then the embedding service
\* (its answer is chosen here: the call reads and writes nothing shared) and
\* the new descriptor list
PutDup(r) ==
    LET q == req[r]
    IN /\ q.pc = "p_dup"
       /\ IF RollTaken(q.doc.id, q.rollNumber, q.doc.classroomId)
          THEN req' = [req EXCEPT ![r] = Respond(q, "conflict")]
          ELSE IF ~q.hasFile
          THEN req' = [req EXCEPT ![r] = [q EXCEPT !.pc = "p_save"]]
          ELSE \E e \in Embeddings \cup {NoFace} :
                 req' = [req EXCEPT ![r] =
                    IF e = NoFace THEN Respond(q, "noface")
                    ELSE [q EXCEPT !.pc = "p_save",
                                   !.doc.faceDescriptors = putFaceDescriptors(@, e)]]
       /\ UNCHANGED <<now, classrooms, students, ledger, started, putHist, session, probe>>

\* line 659: student.save()
PutSave(r) ==
    LET q == req[r]
        id == q.doc.id
        rollChanged == q.rollNumber # q.doc.rollNumber
    IN /\ q.pc = "p_save"
       /\ IF \/ q.hasFile /\ VersionConflict(id, q.doc.v)
             \/ id \notin DOMAIN students
             \/ rollChanged /\ RollTaken(id, q.rollNumber, q.doc.classroomId)
          THEN /\ req' = [req EXCEPT ![r] = Respond(q, "error")]
               /\ UNCHANGED students
          ELSE /\ students' = [students EXCEPT ![id] =
                    IF q.hasFile
                    THEN [@ EXCEPT !.rollNumber = q.rollNumber,
                                   !.faceDescriptors = q.doc.faceDescriptors,
                                   !.descriptorCount = Len(q.doc.faceDescriptors),
                                   !.faceDescriptor =
                                       q.doc.faceDescriptors[Len(q.doc.faceDescriptors)],
                                   !.image = q.file,
                                   !.v = @ + 1]
                    ELSE [@ EXCEPT !.rollNumber = q.rollNumber]]
               /\ req' = [req EXCEPT ![r] =
                            Respond([q EXCEPT !.writes = @ + 1], "ok")]
       /\ UNCHANGED <<now, classrooms, ledger, started, putHist, session, probe>>

\* lines 725-785: the student, the embedding service, the capacity check
AddStart(r) ==
    /\ CanStart(r)
    /\ \E t \in Requesters, id \in StudentRefs \ {"none"}, hasFile \in BOOLEAN,
          e \in Embeddings \cup {NoFace} :
         LET q == [pc |-> "a_start", kind |-> "add", status |-> "none",
                   owned |-> FALSE, writes |-> 0, file |-> started + 1]
             l == LoadStudent(q, id, t, "a_save")
         IN req' = [req EXCEPT ![r] =
                      IF ~hasFile THEN Respond(q, "rejected")
                      ELSE IF l.pc = "done" THEN l
                      ELSE IF e = NoFace THEN Respond(q, "noface")
                      ELSE IF Len(l.doc.faceDescriptors) >= MAX_TRAINING_SAMPLES
                           THEN Respond(q, "full") @@ [id |-> id]
                      ELSE [l EXCEPT !.doc.faceDescriptors = Append(@, e)]]
    /\ started' = started + 1
    /\ UNCHANGED <<now, classrooms, students, ledger, putHist, session, probe>>

\* line 787: student.save()
AddSave(r) ==
    LET q == req[r]
        id == q.doc.id
    IN /\ q.pc = "a_save"
       /\ IF VersionConflict(id, q.doc.v)
          THEN /\ req' = [req EXCEPT ![r] = Respond(q, "error")]
               /\ UNCHANGED students
          ELSE /\ students' = [students EXCEPT ![id] =
                    [@ EXCEPT !.faceDescriptors = q.doc.faceDescriptors,
                              !.descriptorCount = Len(q.doc.faceDescriptors),
                              !.faceDescriptor =
                                  q.doc.faceDescriptors[Len(q.doc.faceDescriptors)],
                              !.image = q.file,
                              !.v = @ + 1]]
               /\ req' = [req EXCEPT ![r] =
                            Respond([q EXCEPT !.writes = @ + 1], "ok")]
       /\ UNCHANGED <<now, classrooms, ledger, started, putHist, session, probe>>

----------------------------------------------------------------------------
(* POST /enroll *)

\* the _id Mongoose gives a new student
NewStudentIds == {"s4", "s5"}

\* lines 508-532: name and rollNumber, the classroom, the image file
EnrollStart(r) ==
    /\ CanStart(r)
    /\ \E t \in Requesters, c \in ClassroomRefs, roll \in {"r1", "r3", "none"},
          hasFile \in BOOLEAN :
         LET q == [pc |-> "e_dup", kind |-> "enroll", status |-> "none",
                   owned |-> Owned(c, t), writes |-> 0, teacherId |-> t,
                   classroomId |-> c, rollNumber |-> roll, file |-> started + 1]
         IN req' = [req EXCEPT ![r] =
                      IF roll = "none" THEN Respond(q, "rejected")
                      ELSE IF c # "none" /\ ~CastsToObjectId(c)
                           THEN Respond(q, "error")
                      ELSE IF ~verifyClassroom(c, t) THEN Respond(q, "rejected")
                      ELSE IF ~hasFile THEN Respond(q, "rejected")
                      ELSE q]
    /\ started' = started + 1
    /\ UNCHANGED <<now, classrooms, students, ledger, putHist, session, probe>>

\* lines 538-548: Student.findOne({rollNumber, classroomId}); then the request
\* to the embedding service is sent and the timer of 60 s set (lines 455-464)
EnrollDup(r) ==
    LET q == req[r]
    IN /\ q.pc = "e_dup"
       /\ req' = [req EXCEPT ![r] =
                    IF RollTaken("none", q.rollNumber, q.classroomId)
                    THEN Respond(q, "conflict")
                    ELSE [q EXCEPT !.pc = "e_extract"]]
       /\ UNCHANGED <<now, classrooms, students, ledger, started, putHist, session, probe>>

\* lines 459-473, 548-556: the embedding service answers, with an embedding
\* or with an error
EnrollExtract(r) ==
    LET q == req[r]
    IN /\ q.pc = "e_extract"
       /\ \E e \in Embeddings \cup {NoFace} :
            req' = [req EXCEPT ![r] =
                      IF e = NoFace THEN Respond(q, "noface")
                      ELSE [q EXCEPT !.pc = "e_save"] @@ [descriptor |-> e]]
       /\ UNCHANGED <<now, classrooms, students, ledger, started, putHist, session, probe>>

\* lines 456, 474-477, 550-553: the timer fires before the service answered;
\* fetch rejects with an AbortError and the route answers 400 "Face
\* processing timed out"
ExtractTimeout(r) ==
    LET q == req[r]
    IN /\ q.pc = "e_extract"
       /\ req' = [req EXCEPT ![r] = Respond(q, "timeout")]
       /\ UNCHANGED <<now, classrooms, students, ledger, started, putHist, session, probe>>

\* lines 558-570: new Student({...}).save() under the unique index
\* {rollNumber, classroomId}
EnrollSave(r) ==
    LET q == req[r]
        id == CHOOSE s \in NewStudentIds : s \notin DOMAIN students
    IN /\ q.pc = "e_save"
       /\ IF RollTaken("none", q.rollNumber, q.classroomId)
          THEN /\ req' = [req EXCEPT ![r] = Respond(q, "error")]
               /\ UNCHANGED students
          ELSE /\ students' = students @@ (id :>
                    [rollNumber |-> q.rollNumber, classroomId |-> q.classroomId,
                     teacherId |-> q.teacherId,
                     faceDescriptors |-> <<q.descriptor>>,
                     descriptorCount |-> 1,
                     faceDescriptor |-> q.descriptor,
                     image |-> q.file,
                     v |-> 0])
               /\ req' = [req EXCEPT ![r] =
                            Respond([q EXCEPT !.writes = @ + 1], "created")
                            @@ [id |-> id]]
       /\ UNCHANGED <<now, classrooms, ledger, started, putHist, session, probe>>

----------------------------------------------------------------------------
(* DELETE /enroll/:id/reset-photos *)

\* lines 862-863 with the first descriptor kept
resetFaceDescriptorsOldest(faceDescriptors) == <<faceDescriptors[1]>>

\* lines 862-863: [faceDescriptors[faceDescriptors.length - 1]]
resetFaceDescriptors(faceDescriptors) ==
    <<faceDescriptors[Len(faceDescriptors)]>>

\* lines 841-865: the student is loaded and its owner checked; a student
\* without descriptors is answered with 400
ResetStart(r) ==
    /\ CanStart(r)
    /\ \E t \in Requesters, id \in StudentRefs \ {"none"} :
         LET q == [pc |-> "r_start", kind |-> "reset", status |-> "none",
                   owned |-> FALSE, writes |-> 0]
             l == LoadStudent(q, id, t, "r_save")
         IN req' = [req EXCEPT ![r] =
                      IF l.pc = "done" THEN l
                      ELSE IF Len(l.doc.faceDescriptors) = 0
                           THEN Respond(q, "empty") @@ [id |-> id]
                      ELSE [l EXCEPT !.doc.faceDescriptors = resetFaceDescriptors(@)]]
    /\ started' = started + 1
    /\ UNCHANGED <<now, classrooms, students, ledger, putHist, session, probe>>

\* line 867: student.save(); photoCount: 1
ResetSave(r) ==
    LET q == req[r]
        id == q.doc.id
    IN /\ q.pc = "r_save"
       /\ IF VersionConflict(id, q.doc.v)
          THEN /\ req' = [req EXCEPT ![r] = Respond(q, "error")]
               /\ UNCHANGED students
          ELSE /\ students' = [students EXCEPT ![id] =
                    [@ EXCEPT !.faceDescriptors = q.doc.faceDescriptors,
                              !.descriptorCount = 1,
                              !.faceDescriptor = q.doc.faceDescriptors[1],
                              !.v = @ + 1]]
               /\ req' = [req EXCEPT ![r] =
                            Respond([q EXCEPT !.writes = @ + 1], "ok") @@ [id |-> id]]
       /\ UNCHANGED <<now, classrooms, ledger, started, putHist, session, probe>>

----------------------------------------------------------------------------
(* DELETE /classroom/:id *)

\* lines 167-178: the classroom is loaded and its owner checked
DeleteStart(r) ==
    /\ CanStart(r)
    /\ \E t \in Requesters, id \in ClassroomRefs \ {"none"} :
         LET q == [pc |-> "d_students", kind |-> "delete", status |-> "none",
                   owned |-> Owned(id, t), writes |-> 0, teacherId |-> t,
                   classroomId |-> id]
         IN req' = [req EXCEPT ![r] =
                      IF ~CastsToObjectId(id) THEN Respond(q, "error")
                      ELSE IF id \notin DOMAIN classrooms THEN Respond(q, "notfound")
                      ELSE IF classrooms[id].teacherId # t THEN Respond(q, "forbidden")
                      ELSE q]
    /\ started' = started + 1
    /\ UNCHANGED <<now, classrooms, students, ledger, putHist, session, probe>>

\* lines 180-196: Student.deleteMany({classroomId: id})
DeleteStudents(r) ==
    LET q == req[r]
        kept == {s \in DOMAIN students : students[s].classroomId # q.classroomId}
    IN /\ q.pc = "d_students"
       /\ students' = [s \in kept |-> students[s]]
       /\ req' = [req EXCEPT ![r] =
                    [q EXCEPT !.pc = "d_attendance",
                              !.writes = @ + Cardinality(DOMAIN students \ kept)]]
       /\ UNCHANGED <<now, classrooms, ledger, started, putHist, session, probe>>

\* line 199: Attendance.deleteMany({classroomId: id})
DeleteAttendance(r) ==
    LET q == req[r]
        gone == {d \in BagToSet(ledger) : d.classroomId = q.classroomId}
    IN /\ q.pc = "d_attendance"
       /\ ledger' = [d \in BagToSet(ledger) \ gone |-> ledger[d]]
       /\ req' = [req EXCEPT ![r] =
                    [q EXCEPT !.pc = "d_classroom",
                              !.writes = @ + Cardinality(gone)]]
       /\ UNCHANGED <<now, classrooms, students, started, putHist, session, probe>>

\* lines 202-210: Classroom.findByIdAndDelete(id) and the response
DeleteClassroom(r) ==
    LET q == req[r]
    IN /\ q.pc = "d_classroom"
       /\ classrooms' = [c \in DOMAIN classrooms \ {q.classroomId} |-> classrooms[c]]
       /\ req' = [req EXCEPT ![r] =
                    Respond(q, "ok") @@ [classroomId |-> q.classroomId]]
       /\ UNCHANGED <<now, students, ledger, started, putHist, session, probe>>

----------------------------------------------------------------------------
(* AttendanceUploader: the component before a photo is processed *)

\* the classroom of the page the component is mounted in (useOutletContext)
\* and the teacher logged in
ViewedClassroom == "c1"
Viewer == "t1"

\* useState defaults: no file, nothing loading, no review, no confirmations, no
\* roster, the correction modal closed (faceIndex null is 0 here), no error
NoSession ==
    [file |-> FALSE, loading |-> FALSE, confirming |-> FALSE, reviewMode |-> FALSE,
     showResults |-> FALSE, confirmations |-> <<>>, enrolledStudents |-> {},
     correctionModal |-> 0, error |-> "none"]

\* no match has been read
NoProbe == [pc |-> "none"]

----------------------------------------------------------------------------
(* POST /attendance/upload *)

\* s.faceDescriptor ? ... : ... (line 161): faceDescriptor is an array path
\* of the schema, which Mongoose hydrates as an array object also when the
\* stored document has none, and every object is truthy
Truthy(faceDescriptor) == TRUE

\* lines 158-163: the descriptor list, else the single legacy descriptor
descriptorsOf(s) ==
    IF Len(s.faceDescriptors) > 0 THEN s.faceDescriptors
    ELSE IF Truthy(s.faceDescriptor) THEN <<s.faceDescriptor>>
    ELSE <<>>

\* lines 156-168: students without descriptors are dropped
enrolledFaces(found) ==
    {[rollNumber |-> students[s].rollNumber,
      descriptors |-> descriptorsOf(students[s])] :
        s \in {x \in found : Len(descriptorsOf(students[x])) # 0}}

\* line 170: enrolledFaces.length === 0
NoCandidates(faces) == faces = {}

\* the Attendance collection after /upload has run, with a handler that
\* marked every recognized student at once
UploadLedgerMarking(L, q, detections) ==
    LET found == {detections[i] :
                    i \in {j \in DOMAIN detections : detections[j] # "none"}}
        new == {AttendanceDoc(s, q.rollOf[s], startOfDay(now), q.classroomId,
                              q.teacherId) : s \in found}
    IN L (+) SetToBag({d \in new : ~DuplicateKey(L, d)})

\* the Attendance collection after /upload has run: lines 133-308 hold no
\* Attendance or Student write, the handler writes image files only
UploadLedger(L, q, detections) == L

\* what the embedding service may answer for one face, given the candidates
\* it was sent (lines 86-109, 211-212)
ServiceMatches(faces) ==
    {[is_recognized |-> TRUE, roll_number |-> f.rollNumber] : f \in faces}
    \cup {[is_recognized |-> FALSE, roll_number |-> "unknown"]}

\* lines 134-145 of the component: the review entry of a detected face
InitialConfirmation(studentId, embedding) ==
    [status |-> "pending", studentId |-> studentId, originalMatch |-> studentId,
     addToTraining |-> FALSE, embedding |-> embedding]

\* handleDetect (component lines 101-115) and lines 133-148 of the route: a
\* file is chosen, no review is open, the request is sent and the classroom
\* verified
UploadStart(r) ==
    /\ CanStart(r)
    /\ session.file /\ ~session.loading /\ ~session.reviewMode
    /\ ~session.showResults
    /\ LET q == [pc |-> "u_find", kind |-> "upload", status |-> "none",
                 owned |-> Owned(ViewedClassroom, Viewer), writes |-> 0,
                 teacherId |-> Viewer, classroomId |-> ViewedClassroom]
       IN IF verifyClassroom(ViewedClassroom, Viewer)
          THEN /\ req' = [req EXCEPT ![r] = q]
               /\ session' = [session EXCEPT !.loading = TRUE, !.error = "none"]
          ELSE /\ req' = [req EXCEPT ![r] = Respond(q, "rejected")]
               /\ session' = [session EXCEPT !.error = "rejected"]
    /\ started' = started + 1
    /\ UNCHANGED <<now, classrooms, students, ledger, putHist, probe>>

\* lines 153-173: the students of the classroom, the candidates, and the 400
\* when there is none
UploadFind(r) ==
    LET q == req[r]
        found == {s \in DOMAIN students : students[s].classroomId = q.classroomId}
        faces == enrolledFaces(found)
    IN /\ q.pc = "u_find"
       /\ IF NoCandidates(faces)
          THEN /\ req' = [req EXCEPT ![r] =
                            Respond(q, "nofaces") @@ [called |-> FALSE]]
               /\ session' = [session EXCEPT !.loading = FALSE,
                                             !.error = "nofaces"]
          ELSE /\ req' = [req EXCEPT ![r] =
                    [q EXCEPT !.pc = "u_match"] @@
                    [found |-> found, faces |-> faces,
                     rollOf |-> [s \in found |-> students[s].rollNumber]]]
               /\ UNCHANGED session
       /\ UNCHANGED <<now, classrooms, students, ledger, started, putHist, probe>>

\* lines 175-295 and component lines 116-155: the service is called with the
\* candidates; it fails (500) or answers with one match per face.  A
\* recognized roll number is looked up among the students found (line 213);
\* the component opens the review with every face pending.
UploadMatch(r) ==
    LET q == req[r]
    IN /\ q.pc = "u_match"
       /\ \/ /\ req' = [req EXCEPT ![r] =
                          Respond(q, "error") @@ [called |-> TRUE]]
             /\ session' = [session EXCEPT !.loading = FALSE, !.error = "error"]
             /\ UNCHANGED ledger
          \/ \E n \in 0..MaxFaces :
             \E matches \in [1..n -> ServiceMatches(q.faces)] :
               LET studentOf(m) ==
                     IF m.is_recognized
                        /\ \E s \in q.found : q.rollOf[s] = m.roll_number
                     THEN CHOOSE s \in q.found : q.rollOf[s] = m.roll_number
                     ELSE "none"
                   detections == [i \in 1..n |-> studentOf(matches[i])]
               IN /\ ledger' = UploadLedger(ledger, q, detections)
                  /\ req' = [req EXCEPT ![r] =
                               Respond(q, "ok") @@ [called |-> TRUE]]
                  /\ session' = [session EXCEPT
                        !.loading = FALSE, !.reviewMode = TRUE,
                        !.enrolledStudents = q.found,
                        !.confirmations =
                            [i \in 1..n |->
                               InitialConfirmation(detections[i], 20 + i)]]
       /\ UNCHANGED <<now, classrooms, students, started, putHist, probe>>

----------------------------------------------------------------------------
(* The Matcher of the embedding service and the detection built from a match *)

\* distances in hundredths: 60 is the distance 0.60
MATCH_THRESHOLD == 60
MATCH_GAP == 5

\* minDistance values the service may compute
Distances == {0, 34, 40, 55, 60, 61, 64, 80, 81, 120}

\* a roster as the service sees it: minDistance of the detected face to each
\* student that has embeddings
Rosters == UNION {[C -> Distances] : C \in (SUBSET Rolls) \ {{}}}

Lowest(D) == CHOOSE x \in D : \A y \in D : x <= y

\* best is the lowest minDistance of the roster
BestDistance(roster) == Lowest({roster[c] : c \in DOMAIN roster})

BestStudent(roster) ==
    CHOOSE c \in DOMAIN roster : roster[c] = BestDistance(roster)

\* second is the next lowest minDistance, when two students exist
HasSecond(roster) == Cardinality(DOMAIN roster) >= 2

SecondDistance(roster) ==
    Lowest({roster[c] : c \in DOMAIN roster \ {BestStudent(roster)}})

\* the margin check: second.minDistance - best.minDistance >= MATCH_GAP
GapOk(roster) ==
    HasSecond(roster) => SecondDistance(roster) - BestDistance(roster) >= MATCH_GAP

\* a decision that the margin check can block
RecognizedWithGap(roster) ==
    BestDistance(roster) <= MATCH_THRESHOLD /\ GapOk(roster)

\* the decision policy: recognized iff best.minDistance <= MATCH_THRESHOLD
Recognized(roster) == BestDistance(roster) <= MATCH_THRESHOLD

\* the match the service reports for one face
Matcher(roster) ==
    [is_recognized |-> Recognized(roster),
     roll_number |-> IF Recognized(roster) THEN BestStudent(roster) ELSE "unknown",
     distance |-> BestDistance(roster),
     gapWarning |-> ~GapOk(roster)]

\* line 239 without the clamp
confidenceUnclamped(distance) == (400 - 5 * distance + 2) \div 4

\* distances whose quotient and product in double arithmetic fall just below
\* a half that exact arithmetic reaches: (1 - 0.34 / 0.8) * 100 is
\* 57.49999999999999 and (1 - 0.54 / 0.8) * 100 is 32.49999999999999
BelowHalf == {34, 54}

\* line 239: Math.max(0, Math.min(100, Math.round((1 - distance / 0.8) * 100)));
\* Math.round takes a half upwards, so it is floor(x + 0.5), and with the
\* distance d in hundredths x is (400 - 5 d) / 4
confidence(distance) ==
    LET rounded == IF distance \in BelowHalf
                   THEN (400 - 5 * distance + 2) \div 4 - 1
                   ELSE (400 - 5 * distance + 2) \div 4
    IN IF rounded < 0 THEN 0 ELSE IF rounded > 100 THEN 100 ELSE rounded

\* lines 211-213 and 242-251: the detection the route builds from a match
Detection(match) ==
    LET student == IF match.is_recognized
                   THEN RosterName(match.roll_number, ViewedClassroom)
                   ELSE "unlisted"
    IN [studentId |-> IF student = "unlisted" THEN "none" ELSE student,
        rollNumber |-> IF match.roll_number # "unknown" THEN match.roll_number
                       ELSE "none",
        distance |-> match.distance,
        confidence |-> confidence(match.distance),
        status |-> IF match.is_recognized THEN "matched" ELSE "unknown"]

\* the service matches one detected face against a roster
ServiceAnswer ==
    /\ probe.pc = "none"
    /\ \E roster \in Rosters :
         probe' = [pc |-> "matched", roster |-> roster, match |-> Matcher(roster)]
    /\ UNCHANGED <<now, classrooms, students, ledger, req, started, putHist,
                   session>>

\* lines 201-255: the route turns the match into a detection
Detect ==
    /\ probe.pc = "matched"
    /\ probe' = [probe EXCEPT !.pc = "detected"] @@
                [detection |-> Detection(probe.match)]
    /\ UNCHANGED <<now, classrooms, students, ledger, req, started, putHist,
                   session>>

----------------------------------------------------------------------------
(* AttendanceUploader: the review of the detected faces *)

\* what no review handler touches
ReviewFrame == UNCHANGED <<now, classrooms, students, ledger, req, started,
                           putHist, probe>>

\* the review cards are shown and no modal covers them
Reviewing == session.reviewMode /\ session.correctionModal = 0

Faces == DOMAIN session.confirmations

\* handleFileSelect, lines 77-93
HandleFileSelect ==
    /\ session.correctionModal = 0
    /\ session' = [session EXCEPT !.file = TRUE, !.error = "none",
                     !.reviewMode = FALSE, !.confirmations = <<>>,
                     !.showResults = FALSE]
    /\ ReviewFrame

\* lines 159-167 with the candidate of the service in the place of the
\* student of the face
handleConfirmAllByCandidate(confirmations) ==
    [i \in DOMAIN confirmations |->
       IF confirmations[i].status = "pending"
          /\ confirmations[i].originalMatch # "none"
       THEN [confirmations[i] EXCEPT !.status = "confirmed"]
       ELSE confirmations[i]]

\* lines 159-167 with every pending face confirmed
handleConfirmAllUnguarded(confirmations) ==
    [i \in DOMAIN confirmations |->
       IF confirmations[i].status = "pending"
       THEN [confirmations[i] EXCEPT !.status = "confirmed"]
       ELSE confirmations[i]]

\* lines 159-167
handleConfirmAll(confirmations) ==
    [i \in DOMAIN confirmations |->
       IF confirmations[i].status = "pending" /\ confirmations[i].studentId # "none"
       THEN [confirmations[i] EXCEPT !.status = "confirmed"]
       ELSE confirmations[i]]

\* the Confirm All button, line 531
HandleConfirmAll ==
    /\ Reviewing
    /\ session' = [session EXCEPT
                     !.confirmations = handleConfirmAll(@)]
    /\ ReviewFrame

\* lines 170-187
handleToggleConfirm(current) ==
    IF current.studentId # "none"
    THEN [current EXCEPT !.status =
            IF current.status = "confirmed" THEN "pending" ELSE "confirmed"]
    ELSE current

\* the Confirm / Unconfirm button of a card, lines 606-621: not shown for a
\* skipped face nor for a face with neither a candidate nor a student
HandleToggleConfirm(i) ==
    /\ Reviewing
    /\ i \in Faces
    /\ session.confirmations[i].status # "skipped"
    /\ \/ session.confirmations[i].originalMatch # "none"
       \/ session.confirmations[i].studentId # "none"
    /\ session' = [session EXCEPT
                     !.confirmations[i] = handleToggleConfirm(@)]
    /\ ReviewFrame

\* lines 190-197: the Wrong button of a card (lines 624-630) and, on a
\* skipped face, the Undo button (lines 634-641) open the correction modal
HandleWrongClick(i) ==
    /\ Reviewing
    /\ i \in Faces
    /\ session' = [session EXCEPT !.correctionModal = i]
    /\ ReviewFrame

\* lines 200-227 with a skip that keeps the student the face had
handleSaveCorrectionKeepingStudent(current, correction) ==
    IF correction.action = "skip"
    THEN [current EXCEPT !.status = "skipped", !.addToTraining = FALSE]
    ELSE IF correction.action = "correct"
    THEN [current EXCEPT !.status = "corrected",
                         !.studentId = correction.studentId,
                         !.addToTraining = correction.addToTraining]
    ELSE current

\* lines 200-227
handleSaveCorrection(current, correction) ==
    IF correction.action = "skip"
    THEN [current EXCEPT !.status = "skipped", !.studentId = "none",
                         !.addToTraining = FALSE]
    ELSE IF correction.action = "correct"
    THEN [current EXCEPT !.status = "corrected",
                         !.studentId = correction.studentId,
                         !.addToTraining = correction.addToTraining]
    ELSE current

\* CorrectionModal.handleSave, lines 227-248 of the modal: "not enrolled"
\* skips the face, "different student" with a student chosen from the roster
\* corrects it; the modal closes
ModalSave ==
    /\ session.reviewMode
    /\ session.correctionModal # 0
    /\ \E correction \in
            {[action |-> "skip", studentId |-> "none", addToTraining |-> FALSE]}
            \cup [action : {"correct"}, studentId : session.enrolledStudents,
                  addToTraining : BOOLEAN] :
         session' = [session EXCEPT
            !.confirmations[session.correctionModal] =
                handleSaveCorrection(@, correction),
            !.correctionModal = 0]
    /\ ReviewFrame

\* CorrectionModal.handleClose, lines 250-255 of the modal
ModalClose ==
    /\ session.correctionModal # 0
    /\ session' = [session EXCEPT !.correctionModal = 0]
    /\ ReviewFrame

\* lines 326-331: the Cancel button
HandleCancelReview ==
    /\ Reviewing
    /\ session' = [session EXCEPT !.reviewMode = FALSE, !.showResults = FALSE]
    /\ ReviewFrame

\* lines 310-323: the reset button and New Scan
ClearState ==
    /\ session.file
    /\ session.correctionModal = 0
    /\ session' = [session EXCEPT !.file = FALSE, !.error = "none",
                     !.reviewMode = FALSE, !.confirmations = <<>>,
                     !.showResults = FALSE]
    /\ ReviewFrame

\* the page is left or reloaded: the state of the component (lines 42-75) is
\* gone
Unmount ==
    /\ session # NoSession
    /\ session' = NoSession
    /\ ReviewFrame

\* lines 230-234
getConfirmedCount(confirmations) ==
    Cardinality({i \in DOMAIN confirmations :
                   confirmations[i].status \in {"confirmed", "corrected"}})

\* lines 244-268 with the faces still pending sent as well
allConfirmationsWithPending(confirmations) ==
    LET sent == {i \in DOMAIN confirmations : confirmations[i].studentId # "none"}
        order == CHOOSE f \in [1..Cardinality(sent) -> sent] :
                   \A a, b \in 1..Cardinality(sent) : a < b => f[a] < f[b]
    IN [k \in 1..Cardinality(sent) |->
          [faceIndex |-> order[k], studentId |-> confirmations[order[k]].studentId,
           action |-> "confirm", addToTraining |-> TRUE,
           embedding |-> confirmations[order[k]].embedding]]

\* lines 244-268: the confirmed and corrected faces in face order, then the
\* skipped ones
allConfirmations(confirmations) ==
    LET Ordered(S) ==
          CHOOSE f \in [1..Cardinality(S) -> S] :
            \A a, b \in 1..Cardinality(S) : a < b => f[a] < f[b]
        confirmed == {i \in DOMAIN confirmations :
                        confirmations[i].status \in {"confirmed", "corrected"}}
        skipped == {i \in DOMAIN confirmations :
                        confirmations[i].status = "skipped"}
        confirmedFaces ==
          [k \in 1..Cardinality(confirmed) |->
             LET i == Ordered(confirmed)[k]
             IN [faceIndex |-> i, studentId |-> confirmations[i].studentId,
                 action |-> IF confirmations[i].status = "corrected"
                            THEN "correct" ELSE "confirm",
                 addToTraining |-> TRUE,
                 embedding |-> confirmations[i].embedding]]
        skippedFaces ==
          [k \in 1..Cardinality(skipped) |->
             [faceIndex |-> Ordered(skipped)[k], studentId |-> "none",
              action |-> "skip", addToTraining |-> FALSE,
              embedding |-> NoEmbedding]]
    IN confirmedFaces \o skippedFaces

\* lines 243-288 and lines 313-330 of the route: the Mark Attendance button
\* (enabled with a face confirmed and no commit running) posts the batch
HandleMarkAttendance(r) ==
    /\ CanStart(r)
    /\ Reviewing
    /\ ~session.confirming
    /\ getConfirmedCount(session.confirmations) # 0
    /\ LET batch == allConfirmations(session.confirmations)
           q == [pc |-> "c_find", kind |-> "confirm", status |-> "none",
                 owned |-> Owned(ViewedClassroom, Viewer), writes |-> 0,
                 teacherId |-> Viewer, classroomId |-> ViewedClassroom,
                 left |-> Len(batch), batch |-> batch]
       IN req' = [req EXCEPT ![r] =
                    IF verifyClassroom(ViewedClassroom, Viewer) THEN q
                    ELSE Respond(q, "rejected")]
    /\ session' = [session EXCEPT !.confirming = TRUE]
    /\ started' = started + 1
    /\ UNCHANGED <<now, classrooms, students, ledger, putHist, probe>>

\* the loop of the route over the batch the component sent, in its order
CommitNext(r) ==
    /\ "batch" \in DOMAIN req[r]
    /\ ConfirmNext(r, IF req[r].left = 0 THEN {}
                      ELSE {req[r].batch[Len(req[r].batch) - req[r].left + 1]})

\* lines 289-306: the response of the commit reaches the component
CommitDone(r) ==
    /\ req[r].kind = "confirm"
    /\ req[r].pc = "done"
    /\ session.confirming
    /\ session' =
         IF req[r].status = "ok"
         THEN [session EXCEPT !.confirming = FALSE, !.showResults = TRUE,
                              !.reviewMode = FALSE]
         ELSE [session EXCEPT !.confirming = FALSE, !.error = req[r].status]
    /\ req' = [req EXCEPT ![r] = Idle]
    /\ UNCHANGED <<now, classrooms, students, ledger, started, putHist, probe>>

----------------------------------------------------------------------------
(* The clock *)

Tick ==
    /\ now < MaxTime
    /\ now' = now + 1
    /\ UNCHANGED <<classrooms, students, ledger, req, started, putHist, session, probe>>

----------------------------------------------------------------------------
(* Initial state: two classrooms, three enrolled students; s1 has n descriptors *)

InitLens == {1, MAX_TRAINING_SAMPLES - 1, MAX_TRAINING_SAMPLES}

StudentDoc(rollNumber, classroomId, teacherId, faceDescriptors) ==
    [rollNumber |-> rollNumber, classroomId |-> classroomId, teacherId |-> teacherId,
     faceDescriptors |-> faceDescriptors, descriptorCount |-> Len(faceDescriptors),
     faceDescriptor |-> IF Len(faceDescriptors) = 0 THEN NoEmbedding
                        ELSE faceDescriptors[Len(faceDescriptors)],
     image |-> 0,
     v |-> 0]

InitWith(n) ==
    /\ now = 0
    /\ classrooms = [c \in ClassroomIds |->
                       [teacherId |-> IF c = "c1" THEN "t1" ELSE "t2"]]
    /\ students = [s \in StudentIds |->
          IF s = "s1" THEN StudentDoc("r1", "c1", "t1", [i \in 1..n |-> i])
          ELSE IF s = "s2" THEN StudentDoc("r2", "c1", "t1", <<1>>)
          ELSE StudentDoc("r1", "c2", "t2", <<1>>)]
    /\ ledger = EmptyBag
    /\ req = [r \in Reqs |-> Idle]
    /\ started = 0
    /\ putHist = <<>>
    /\ session = NoSession
    /\ probe = NoProbe

\* s1 enrolled a moment ago
Init == InitWith(1)

\* s1 with one descriptor, or with its list nearly or entirely full
TrainInit == \E n \in InitLens : InitWith(n)

\* Spec: the requests that write the attendance ledger, across two days
Next ==
    \/ Tick
    \/ \E r \in Reqs : MarkStart(r)
    \/ \E r \in Reqs : MarkFind(r)
    \/ \E r \in Reqs : MarkSave(r)
    \/ \E r \in Reqs : UnmarkStart(r)
    \/ \E r \in Reqs : UnmarkDelete(r)
    \/ \E r \in Reqs : ConfirmStart(r)
    \/ \E r \in Reqs : ConfirmFind(r)
    \/ \E r \in Reqs : ConfirmNext(r, AttendanceDecisions)
    \/ \E r \in Reqs : ConfirmCreate(r)

Spec == Init /\ [][Next]_vars

\* TrainSpec: the requests that write the descriptor lists, within one day
TrainNext ==
    \/ \E r \in Reqs : ConfirmStart(r)
    \/ \E r \in Reqs : ConfirmFind(r)
    \/ \E r \in Reqs : ConfirmNext(r, Decisions)
    \/ \E r \in Reqs : ConfirmCreate(r)
    \/ \E r \in Reqs : ConfirmSave(r)
    \/ \E r \in Reqs : PutStart(r, {"r1", "none"})
    \/ \E r \in Reqs : PutDup(r)
    \/ \E r \in Reqs : PutSave(r)
    \/ \E r \in Reqs : AddStart(r)
    \/ \E r \in Reqs : AddSave(r)

TrainSpec == TrainInit /\ [][TrainNext]_vars

\* the documents s1 may be stored as: with the defaults of the schema, with
\* the legacy descriptor only, with a list of 1, 3 or MAX_TRAINING_SAMPLES
\* descriptors, or with a list one longer than descriptorCount, as the push of
\* a confirmation leaves it when another request saved the student between
\* the confirmation's load and its save
SampleDocs ==
    {StudentDoc("r1", "c1", "t1", [i \in 1..n |-> i]) :
        n \in {0, 1, 3, MAX_TRAINING_SAMPLES}}
    \cup {[StudentDoc("r1", "c1", "t1", <<>>) EXCEPT !.faceDescriptor = 1]}
    \cup {[StudentDoc("r1", "c1", "t1", <<1, 2, 3>>) EXCEPT !.descriptorCount = 2]}

SampleInit ==
    /\ InitWith(1)!1 /\ InitWith(1)!2
    /\ \E doc \in SampleDocs :
         students = [s \in StudentIds |->
            IF s = "s1" THEN doc
            ELSE IF s = "s2" THEN StudentDoc("r2", "c1", "t1", <<1>>)
            ELSE StudentDoc("r1", "c2", "t2", <<1>>)]
    /\ ledger = EmptyBag
    /\ req = [r \in Reqs |-> Idle]
    /\ started = 0
    /\ putHist = <<>>
    /\ session = NoSession
    /\ probe = NoProbe

\* confirmations of s1 that ask for training
SampleDecisions ==
    {d \in Decisions : /\ d.studentId = "s1" /\ d.action = "confirm"
                       /\ d.addToTraining /\ d.embedding = 22}

\* SampleSpec: photos are added to a student and reset while confirmations
\* train it
SampleNext ==
    \/ \E r \in Reqs : ResetStart(r)
    \/ \E r \in Reqs : ResetSave(r)
    \/ \E r \in Reqs : AddStart(r)
    \/ \E r \in Reqs : AddSave(r)
    \/ \E r \in Reqs : ConfirmStart(r)
    \/ \E r \in Reqs : ConfirmFind(r)
    \/ \E r \in Reqs : ConfirmNext(r, SampleDecisions)
    \/ \E r \in Reqs : ConfirmCreate(r)
    \/ \E r \in Reqs : ConfirmSave(r)

SampleSpec == SampleInit /\ [][SampleNext]_vars

\* ServiceSpec: the requests that call the embedding service: enrollment,
\* update and add-photo of a student, group photos of classroom c1
ServiceNext ==
    \/ \E r \in Reqs : EnrollStart(r)
    \/ \E r \in Reqs : EnrollDup(r)
    \/ \E r \in Reqs : EnrollExtract(r)
    \/ \E r \in Reqs : ExtractTimeout(r)
    \/ \E r \in Reqs : EnrollSave(r)
    \/ \E r \in Reqs : PutStart(r, {"r1", "r3"})
    \/ \E r \in Reqs : PutDup(r)
    \/ \E r \in Reqs : PutSave(r)
    \/ \E r \in Reqs : AddStart(r)
    \/ \E r \in Reqs : AddSave(r)
    \/ HandleFileSelect
    \/ \E r \in Reqs : UploadStart(r)
    \/ \E r \in Reqs : UploadFind(r)
    \/ \E r \in Reqs : UploadMatch(r)

ServiceSpec == Init /\ [][ServiceNext]_vars

\* the same where every step of a handler that depends on the server alone
\* is eventually taken: a database call returns, a timer that was set fires.
\* The answer of the embedding service (EnrollExtract, UploadMatch) may never
\* come.
ServiceLive ==
    /\ ServiceSpec
    /\ \A r \in Reqs : /\ WF_vars(EnrollDup(r))
                       /\ WF_vars(ExtractTimeout(r))
                       /\ WF_vars(EnrollSave(r))
                       /\ WF_vars(PutDup(r))
                       /\ WF_vars(PutSave(r))
                       /\ WF_vars(AddSave(r))
                       /\ WF_vars(UploadFind(r))

\* ReviewSpec: one teacher at the attendance page of a classroom: photo and
\* review, nothing committed
ReviewNext ==
    \/ HandleFileSelect
    \/ \E r \in Reqs : UploadStart(r)
    \/ \E r \in Reqs : UploadFind(r)
    \/ \E r \in Reqs : UploadMatch(r)
    \/ HandleConfirmAll
    \/ \E i \in 1..MaxFaces : HandleToggleConfirm(i)
    \/ \E i \in 1..MaxFaces : HandleWrongClick(i)
    \/ ModalSave
    \/ ModalClose
    \/ HandleCancelReview
    \/ ClearState
    \/ Unmount

ReviewSpec == Init /\ [][ReviewNext]_vars

\* CommitSpec: photo, review by confirm-all, corrections and skips, then the
\* commit and the route that serves it
CommitSteps ==
    \/ HandleFileSelect
    \/ \E r \in Reqs : UploadStart(r)
    \/ \E r \in Reqs : UploadFind(r)
    \/ \E r \in Reqs : UploadMatch(r)
    \/ HandleConfirmAll
    \/ \E i \in 1..MaxFaces : HandleWrongClick(i)
    \/ ModalSave
    \/ HandleCancelReview
    \/ \E r \in Reqs : HandleMarkAttendance(r)
    \/ \E r \in Reqs : ConfirmFind(r)
    \/ \E r \in Reqs : CommitNext(r)
    \/ \E r \in Reqs : ConfirmCreate(r)
    \/ \E r \in Reqs : ConfirmSave(r)
    \/ \E r \in Reqs : CommitDone(r)

CommitSpec == Init /\ [][CommitSteps]_vars

\* s1 was marked present today by a confirmation
RollInit ==
    /\ InitWith(1)!1 /\ InitWith(1)!2 /\ InitWith(1)!3
    /\ ledger = SetToBag({AttendanceDoc("s1", "r1", startOfDay(0), "c1", "t1")})
    /\ req = [r \in Reqs |-> Idle]
    /\ started = 0
    /\ putHist = <<>>
    /\ session = NoSession
    /\ probe = NoProbe

\* RollSpec: confirmations, manual marks and unmarks while students are
\* given new roll numbers, within one day
RollNext ==
    \/ \E r \in Reqs : MarkStart(r)
    \/ \E r \in Reqs : MarkFind(r)
    \/ \E r \in Reqs : MarkSave(r)
    \/ \E r \in Reqs : UnmarkStart(r)
    \/ \E r \in Reqs : UnmarkDelete(r)
    \/ \E r \in Reqs : ConfirmStart(r)
    \/ \E r \in Reqs : ConfirmFind(r)
    \/ \E r \in Reqs : ConfirmNext(r, AttendanceDecisions)
    \/ \E r \in Reqs : ConfirmCreate(r)
    \/ \E r \in Reqs : PutStart(r, {"r2", "r3"})
    \/ \E r \in Reqs : PutDup(r)
    \/ \E r \in Reqs : PutSave(r)

RollSpec == RollInit /\ [][RollNext]_vars

\* CascadeSpec: a classroom is removed while confirmations and manual marks
\* are served, starting with s1 marked present
CascadeNext ==
    \/ \E r \in Reqs : DeleteStart(r)
    \/ \E r \in Reqs : DeleteStudents(r)
    \/ \E r \in Reqs : DeleteAttendance(r)
    \/ \E r \in Reqs : DeleteClassroom(r)
    \/ \E r \in Reqs : MarkStart(r)
    \/ \E r \in Reqs : MarkFind(r)
    \/ \E r \in Reqs : MarkSave(r)
    \/ \E r \in Reqs : ConfirmStart(r)
    \/ \E r \in Reqs : ConfirmFind(r)
    \/ \E r \in Reqs : ConfirmNext(r, AttendanceDecisions)
    \/ \E r \in Reqs : ConfirmCreate(r)

CascadeSpec == RollInit /\ [][CascadeNext]_vars

\* MatchSpec: one detected face, from the distances to the detection
MatchNext == ServiceAnswer \/ Detect

MatchSpec == Init /\ [][MatchNext]_vars

\* the documents a student of the classroom may be stored as: with a
\* descriptor list, with the single legacy descriptor only (enrolled before
\* the list existed), or with neither (the defaults of the schema)
StoredAs(s, rollNumber, how) ==
    IF how = "list" THEN StudentDoc(rollNumber, "c1", "t1", <<1>>)
    ELSE IF how = "legacy"
    THEN [StudentDoc(rollNumber, "c1", "t1", <<>>) EXCEPT !.faceDescriptor = 1]
    ELSE StudentDoc(rollNumber, "c1", "t1", <<>>)

\* classroom c1 with none, one or two students, each stored in one of the
\* three ways
UploadInit ==
    /\ InitWith(1)!1 /\ InitWith(1)!2
    /\ \E how \in [{"s1", "s2"} -> {"list", "legacy", "empty", "absent"}] :
         students = [s \in {x \in {"s1", "s2"} : how[x] # "absent"} \cup {"s3"} |->
            IF s = "s1" THEN StoredAs(s, "r1", how[s])
            ELSE IF s = "s2" THEN StoredAs(s, "r2", how[s])
            ELSE StudentDoc("r1", "c2", "t2", <<1>>)]
    /\ ledger = EmptyBag
    /\ req = [r \in Reqs |-> Idle]
    /\ started = 0
    /\ putHist = <<>>
    /\ session = NoSession
    /\ probe = NoProbe

\* UploadSpec: group photos uploaded for classroom c1
UploadNext ==
    \/ HandleFileSelect
    \/ \E r \in Reqs : UploadStart(r)
    \/ \E r \in Reqs : UploadFind(r)
    \/ \E r \in Reqs : UploadMatch(r)

UploadSpec == UploadInit /\ [][UploadNext]_vars

----------------------------------------------------------------------------
(* FifoSpec: one student, photo re-submissions one after the other *)

\* PUT /enroll/:id with an image, from the request to its response, no other
\* request running: the student is loaded, the roll number is its own, the
\* service delivers e, the new list is saved
PutPhoto(id, e) ==
    /\ Len(putHist) < MaxPuts
    /\ ~VersionConflict(id, students[id].v)
    /\ ~RollTaken(id, students[id].rollNumber, students[id].classroomId)
    /\ students' = [students EXCEPT ![id] =
          [@ EXCEPT !.faceDescriptors = putFaceDescriptors(@, e),
                    !.faceDescriptor = e,
                    !.image = Len(putHist) + 1,
                    !.descriptorCount =
                        Len(putFaceDescriptors(students[id].faceDescriptors, e)),
                    !.v = @ + 1]]
    /\ putHist' = Append(putHist, e)
    /\ UNCHANGED <<now, classrooms, ledger, req, started, session, probe>>

FifoNext == \E e \in Embeddings : PutPhoto("s1", e)

FifoSpec == Init /\ [][FifoNext]_vars

----------------------------------------------------------------------------
(* Notions the properties are stated with *)

\* the calendar day of a date
DayOf(t) == t \div TicksPerDay

Days == {DayOf(t) : t \in Times}

\* number of attendance documents of one roll number, classroom, teacher and day
RecordsOn(L, rollNo, classroomId, teacherId, day) ==
    LET M == {d \in BagToSet(L) : /\ d.rollNo = rollNo
                                  /\ d.classroomId = classroomId
                                  /\ d.teacherId = teacherId
                                  /\ DayOf(d.date) = day}
        RECURSIVE Sum(_)
        Sum(S) == IF S = {} THEN 0
                  ELSE LET d == CHOOSE x \in S : TRUE
                       IN CopiesIn(d, L) + Sum(S \ {d})
    IN Sum(M)

Range(f) == {f[i] : i \in DOMAIN f}

\* the request in slot r is a confirm request inside its loop
InLoop(q) == q.kind = "confirm" /\ q.pc \in {"c_loop", "c_create", "c_save"}

\* attendance documents of the student a confirm request has loaded, on the
\* day the request marks
RecordsOfLoaded(L, q) ==
    RecordsOn(L, q.doc.rollNumber, q.classroomId, q.teacherId, DayOf(q.attendanceDate))

\* the last MAX_TRAINING_SAMPLES elements of a sequence
LastSamples(h) ==
    IF Len(h) <= MAX_TRAINING_SAMPLES THEN h
    ELSE SubSeq(h, Len(h) - MAX_TRAINING_SAMPLES + 1, Len(h))

----------------------------------------------------------------------------
(* C1 *)

\* C1: in every reachable state the ledger holds at most one attendance
\* document for each roll number, classroom, teacher and calendar day.
C1_OneRecordPerDay ==
    \A roll \in Rolls, c \in ClassroomIds, t \in Teachers, day \in Days :
        RecordsOn(ledger, roll, c, t, day) <= 1

\* a manual mark created the record and a confirm request that had not seen
\* it ran into the unique index
C1_Witness ==
    \E r \in Reqs, o \in Reqs :
        /\ req[o].kind = "mark" /\ req[o].status = "created"
        /\ InLoop(req[r]) /\ req[r].attRes = "dup"
        /\ RecordsOfLoaded(ledger, req[r]) = 1


----------------------------------------------------------------------------
(* C2 *)

\* the step of slot r in which its confirm request takes a confirmation and
\* finds the student, a student whose roll number the request already holds
\* as marked today
RepeatedConfirmation(r) ==
    /\ req[r].kind = "confirm" /\ req[r].pc = "c_loop"
    /\ req'[r] # req[r]
    /\ req'[r].pc # "done"
    /\ req'[r].doc.id # "none"
    /\ req'[r].doc.rollNumber \in req[r].existingRollNumbers

\* C2: a confirmation for a student the call read as already marked today is
\* a no-op: no insert is attempted, the ledger is as it was (one record stays
\* one record), the student is not added to markedStudents and the call goes
\* on without an error.
C2_RepeatIsNoOp ==
    [][\A r \in Reqs :
         RepeatedConfirmation(r) =>
            /\ req'[r].attRes = "known"
            /\ req'[r].pc = "c_loop"
            /\ ledger' = ledger
            /\ req'[r].markedStudents = req[r].markedStudents]_vars

\* a first confirm call has marked the student and answered; the second call
\* has handled the same student, marked nobody, and the record is still one
C2_Witness ==
    \E r \in Reqs, o \in Reqs :
        /\ req[o].kind = "confirm" /\ req[o].pc = "done" /\ req[o].status = "ok"
        /\ InLoop(req[r]) /\ req[r].attRes = "known"
        /\ req[r].doc.rollNumber \in Range(req[o].markedStudents)
        /\ req[r].markedStudents = <<>>
        /\ RecordsOfLoaded(ledger, req[r]) = 1

----------------------------------------------------------------------------
(* C3 *)

\* the step of slot r in which its confirm request inserts the attendance
\* document although a document of that student and day is in the ledger
LostRace(r) ==
    /\ req[r].kind = "confirm" /\ req[r].pc = "c_create"
    /\ req'[r] # req[r]
    /\ RecordsOfLoaded(ledger, req[r]) >= 1

\* C3: the confirm request that loses the race for a student's record meets
\* the unique index: the ledger keeps the one record, the request takes the
\* conflict as "already marked", does not list the student and goes on.
C3_LoserDegrades ==
    [][\A r \in Reqs :
         LostRace(r) =>
            /\ ledger' = ledger
            /\ RecordsOfLoaded(ledger', req[r]) = 1
            /\ req'[r].pc = "c_loop"
            /\ req'[r].attRes = "dup"
            /\ req'[r].markedStudents = req[r].markedStudents]_vars

\* two confirm requests that both read an empty ledger: one has listed the
\* student, the other has met the conflict and listed nobody
C3_Witness ==
    \E r \in Reqs, o \in Reqs :
        /\ req[o].kind = "confirm" /\ req[o].status \in {"none", "ok"}
        /\ req[o].pc \in {"c_loop", "done"}
        /\ InLoop(req[r]) /\ req[r].attRes = "dup"
        /\ req[r].doc.rollNumber \in Range(req[o].markedStudents)
        /\ req[r].markedStudents = <<>>
        /\ RecordsOfLoaded(ledger, req[r]) = 1

----------------------------------------------------------------------------
(* C4 *)

\* the step of slot r in which its confirm request comes to the training block
\* of a confirmation: after Attendance.create, or at once when the student
\* was read as marked
TrainingReached(r) ==
    /\ req[r].kind = "confirm"
    /\ req'[r] # req[r]
    /\ \/ req[r].pc = "c_create"
       \/ /\ req[r].pc = "c_loop"
          /\ req'[r].pc # "done"
          /\ req'[r].attRes = "known"

\* ... and the student it loaded holds MAX_TRAINING_SAMPLES descriptors while
\* the confirmation brings a usable embedding
AtCapacity(r) ==
    /\ TrainingReached(r)
    /\ req'[r].pc # "done"
    /\ req'[r].emb \in Embeddings
    /\ Len(req'[r].doc.faceDescriptors) >= MAX_TRAINING_SAMPLES

----------------------------------------------------------------------------
(* C5 *)

\* C5: after MAX_TRAINING_SAMPLES or more successive photo re-submissions for
\* one student, the descriptor list has exactly MAX_TRAINING_SAMPLES elements:
\* the last MAX_TRAINING_SAMPLES embeddings submitted, in the order submitted.
C5_LastSamplesSurvive ==
    Len(putHist) >= MAX_TRAINING_SAMPLES =>
        /\ Len(students["s1"].faceDescriptors) = MAX_TRAINING_SAMPLES
        /\ students["s1"].faceDescriptors = LastSamples(putHist)
        /\ students["s1"].descriptorCount = MAX_TRAINING_SAMPLES

\* two more re-submissions than the list holds, the first submitted embedding
\* differing from the one that took its place
C5_Witness ==
    /\ Len(putHist) = MAX_TRAINING_SAMPLES + 2
    /\ putHist[1] # putHist[3]
    /\ students["s1"].faceDescriptors[1] = putHist[3]

----------------------------------------------------------------------------
(* C6 *)

\* C6: no student's descriptor list is ever longer than MAX_TRAINING_SAMPLES.
C6_CapHolds ==
    \A s \in StudentIds :
        Len(students[s].faceDescriptors) <= MAX_TRAINING_SAMPLES

----------------------------------------------------------------------------
(* C7 *)

\* the step of slot r in which its request saves a student with a new sample
SaveStep(r) ==
    /\ req'[r] # req[r]
    /\ \/ req[r].pc \in {"c_save", "a_save"}
       \/ req[r].pc = "p_save" /\ req[r].hasFile

\* the sample the request in slot r is about to save
SampleOf(q) ==
    IF q.kind = "confirm" THEN q.emb
    ELSE q.doc.faceDescriptors[Len(q.doc.faceDescriptors)]

\* what the request's route makes of a stored list when it runs alone
AloneOn(kind, faceDescriptors, e) ==
    IF kind = "put" THEN putFaceDescriptors(faceDescriptors, e)
    ELSE IF Len(faceDescriptors) >= MAX_TRAINING_SAMPLES THEN faceDescriptors
    ELSE Append(faceDescriptors, e)

\* C7: requests that add a sample to the same student are serialized: each
\* save leaves the list the route would have made of the list stored just
\* before it, so no sample is lost, the list keeps to MAX_TRAINING_SAMPLES and
\* descriptorCount is the length of the list.
C7_AppendsSerialized ==
    [][\A r \in Reqs :
         SaveStep(r) =>
            LET id == req[r].doc.id
            IN /\ students'[id].faceDescriptors =
                     AloneOn(req[r].kind, students[id].faceDescriptors,
                             SampleOf(req[r]))
               /\ Len(students'[id].faceDescriptors) <= MAX_TRAINING_SAMPLES
               /\ students'[id].descriptorCount =
                     Len(students'[id].faceDescriptors)]_vars

----------------------------------------------------------------------------
(* C8 *)

\* C8: a confirm call whose batch names a student that does not exist in the
\* classroom still succeeds and reaches every confirmation of the batch.
C8_BadReferenceSkipped ==
    \A r \in Reqs :
        (/\ req[r].kind = "confirm" /\ req[r].pc = "done"
         /\ "badRef" \in DOMAIN req[r]
         /\ req[r].badRef)
        => (req[r].status = "ok" /\ req[r].left = 0)

----------------------------------------------------------------------------
(* C9 *)

\* C9: a confirm request for a classroom that is missing or belongs to another
\* teacher is answered at once, with the rejection (or with the server error
\* when the id is no ObjectId), and has written nothing.
C9_UnownedRejected ==
    \A r \in Reqs :
        (req[r].kind = "confirm" /\ ~req[r].owned)
        => /\ req[r].pc = "done"
           /\ req[r].status \in {"rejected", "error"}
           /\ req[r].writes = 0

\* such a request has been answered, while the ledger holds a record
C9_Witness ==
    \E r \in Reqs :
        /\ req[r].kind = "confirm" /\ ~req[r].owned /\ req[r].status = "rejected"
        /\ ledger # EmptyBag

----------------------------------------------------------------------------
(* C10 *)

\* the step of slot r in which its confirm request has the attendance insert
\* behind it and the embedding of the confirmation cannot be appended
AppendFails(r) ==
    /\ req[r].kind = "confirm" /\ req[r].pc = "c_create"
    /\ req'[r] # req[r]
    /\ req[r].emb = BadVector
    /\ Len(req[r].doc.faceDescriptors) < MAX_TRAINING_SAMPLES

\* the step of slot r in which its confirm request comes to the training block
\* with a usable embedding and room in the loaded list, the insert having
\* been a no-op
MarkedBefore(r) ==
    /\ TrainingReached(r)
    /\ req'[r].pc # "done"
    /\ req'[r].attRes \in {"known", "dup"}
    /\ req'[r].emb \in Embeddings
    /\ Len(req'[r].doc.faceDescriptors) < MAX_TRAINING_SAMPLES

\* C10: a sample that cannot be appended leaves the attendance record of its
\* confirmation in the ledger and the request in its loop with as many
\* confirmations left as before; a confirmation for a student already marked
\* still has its sample saved: the save is the request's next step and appends
\* the embedding.
C10_EffectsIndependent ==
    [][\A r \in Reqs :
         /\ AppendFails(r) =>
               /\ req'[r].pc = "c_loop"
               /\ req'[r].trainRes = "failed"
               /\ req'[r].left = req[r].left
               /\ RecordsOfLoaded(ledger', req[r]) = 1
         /\ MarkedBefore(r) => req'[r].pc = "c_save"
         /\ (req[r].pc = "c_save" /\ req'[r] # req[r]) =>
               /\ Len(students'[req[r].doc.id].faceDescriptors) =
                     Len(students[req[r].doc.id].faceDescriptors) + 1
               /\ students'[req[r].doc.id].faceDescriptors[
                     Len(students'[req[r].doc.id].faceDescriptors)] = req[r].emb
               /\ req'[r].trainRes = "added"
               /\ ledger' = ledger]_vars

\* one request has created the record and failed to append, and has gone on
\* to answer; another found the student marked and has saved its sample
C10_Witness ==
    \E r \in Reqs, o \in Reqs :
        /\ req[r].kind = "confirm" /\ req[r].pc = "c_loop"
        /\ req[r].attRes = "created" /\ req[r].trainRes = "failed"
        /\ RecordsOfLoaded(ledger, req[r]) = 1
        /\ req[o].kind = "confirm" /\ req[o].pc = "c_loop"
        /\ req[o].attRes \in {"known", "dup"} /\ req[o].trainRes = "added"
        /\ req[o].emb \in Embeddings
        /\ req[o].doc.id = req[r].doc.id

----------------------------------------------------------------------------
(* The review of the detected faces *)

ReviewStatus(i) == session.confirmations[i].status

\* the step is a click on the Undo button of face i (shown on a skipped face)
UndoStep(i) == HandleWrongClick(i) /\ ReviewStatus(i) = "skipped"

\* the step is a click on the Unconfirm button of the corrected face i
UnconfirmStep(i) == HandleToggleConfirm(i) /\ ReviewStatus(i) = "corrected"

\* C11: during the review a correction saved for a face leaves it corrected
\* or skipped whatever its state was, and the undo of a skipped face (the
\* Undo button) or of a corrected face (the Unconfirm button) returns the
\* face to pending
C11_CorrectionReversible ==
    [][\A i \in 1..MaxFaces :
         /\ (ModalSave /\ session.correctionModal = i)
               => session'.confirmations[i].status \in {"corrected", "skipped"}
         /\ (UndoStep(i) \/ UnconfirmStep(i))
               => session'.confirmations[i].status = "pending"]_vars

\* no single click of the review takes a skipped or corrected face to pending
C11_NoStepBackToPending ==
    [][\A i \in 1..MaxFaces :
         (/\ i \in DOMAIN session.confirmations
          /\ i \in DOMAIN session'.confirmations
          /\ session.reviewMode /\ session'.reviewMode /\ req' = req
          /\ ReviewStatus(i) \in {"corrected", "skipped"})
         => session'.confirmations[i].status # "pending"]_vars

Confirmation(i) == session.confirmations[i]

\* a click of the review: no request starts or ends, the review stays open
ReviewClick == session.reviewMode /\ session'.reviewMode /\ req' = req

NoCandidate(i) == i \in Faces /\ Confirmation(i).originalMatch = "none"

----------------------------------------------------------------------------
(* The session and the stored data *)

\* C14: no step of a session that is not committed (upload, toggle, confirm
\* all, correction, skip, cancel, reset, page left) changes the attendance
\* ledger or any student document
C14_NoSideEffectBeforeCommit ==
    [][ledger' = ledger /\ students' = students]_vars

\* a photo was processed, a face was confirmed in the review and the review
\* was cancelled
C14_Witness ==
    /\ ~session.reviewMode
    /\ \E i \in Faces : Confirmation(i).status = "confirmed"
    /\ \E r \in Reqs : req[r].kind = "upload" /\ req[r].status = "ok"
    /\ ledger = EmptyBag

\* the decision the confirm request r takes next from its batch
NextDecision(r) == req[r].batch[Len(req[r].batch) - req[r].left + 1]

\* the decisions of a batch made for face i
DecisionsFor(batch, i) == {k \in DOMAIN batch : batch[k].faceIndex = i}

\* C15: the batch sent at commit holds a confirm or correct decision, with
\* the student of the face, for exactly the confirmed and corrected faces;
\* a pending face has no decision and a skipped face only a skip decision
\* without student; the route takes a skip decision or a decision without
\* student without creating a record, loading a student or scheduling a
\* sample, and the commit is answered without error
C15_BatchIsConfirmedFaces ==
    [][\A r \in Reqs :
         /\ (HandleMarkAttendance(r) /\ req'[r].pc = "c_find")
             => LET batch == req'[r].batch
                IN \A i \in Faces :
                     /\ Confirmation(i).status \in {"confirmed", "corrected"}
                          <=> \E k \in DecisionsFor(batch, i) :
                                /\ batch[k].action \in {"confirm", "correct"}
                                /\ batch[k].studentId # "none"
                     /\ \A k \in DecisionsFor(batch, i) :
                          /\ batch[k].studentId = Confirmation(i).studentId
                          /\ batch[k].action = "skip"
                               <=> Confirmation(i).status = "skipped"
                     /\ Confirmation(i).status = "pending"
                          => DecisionsFor(batch, i) = {}
                     /\ Cardinality(DecisionsFor(batch, i)) <= 1
         /\ (CommitNext(r) /\ req[r].left > 0
               /\ (NextDecision(r).action = "skip"
                     \/ NextDecision(r).studentId = "none"))
             => /\ ledger' = ledger /\ students' = students
                /\ req'[r].pc = "c_loop"
                /\ req'[r].attRes = "none" /\ req'[r].trainRes = "none"
                /\ req'[r].markedStudents = req[r].markedStudents
                /\ req'[r].trainedCount = req[r].trainedCount
         /\ (CommitNext(r) /\ req[r].left = 0) => req'[r].status = "ok"
         /\ CommitDone(r) => req[r].status = "ok" /\ session'.showResults
                              /\ session'.error = session.error]_vars

\* a commit is being served whose batch holds a skip decision that the route
\* has taken, while the review held a face left out of the batch or skipped
C15_Witness ==
    \E r \in Reqs :
      /\ "batch" \in DOMAIN req[r]
      /\ req[r].pc = "c_loop"
      /\ req[r].left = 0
      /\ \E k \in DOMAIN req[r].batch : req[r].batch[k].action = "skip"
      /\ Len(req[r].markedStudents) = 1

----------------------------------------------------------------------------
(* The ledger and the students *)

\* number of attendance documents created for one student in one classroom
\* on one day
RecordsOfStudent(L, studentName, classroomId, day) ==
    LET M == {d \in BagToSet(L) : /\ d.studentName = studentName
                                  /\ d.classroomId = classroomId
                                  /\ DayOf(d.date) = day}
        RECURSIVE Sum(_)
        Sum(S) == IF S = {} THEN 0
                  ELSE LET d == CHOOSE x \in S : TRUE
                       IN CopiesIn(d, L) + Sum(S \ {d})
    IN Sum(M)

\* C16: whatever confirmations, manual marks, unmarks and student updates
\* ran, no student has more than one attendance record for the same
\* classroom and calendar day
C16_OneRecordPerStudent ==
    \A s \in StudentIds, c \in ClassroomIds, day \in Days :
        RecordsOfStudent(ledger, s, c, day) <= 1

\* the classrooms whose DELETE request was answered with success
Removed == {req[r].classroomId :
              r \in {x \in Reqs : req[x].kind = "delete" /\ req[x].status = "ok"}}

\* C17: once DELETE /classroom/:id has completed, no student and no
\* attendance record with that classroomId exists, also when confirm or
\* manual-mark requests for the classroom were in flight during the deletion
C17_CascadeComplete ==
    \A c \in Removed :
        /\ \A s \in DOMAIN students : students[s].classroomId # c
        /\ \A d \in BagToSet(ledger) : d.classroomId # c

\* a deletion run with no other request in flight leaves nothing behind
C17_DeletedAlone ==
    \A r \in Reqs :
        (/\ req[r].kind = "delete" /\ req[r].status = "ok"
         /\ \A o \in Reqs \ {r} : req[o].pc \in {"idle", "done"}
         /\ started = 1)
        => /\ \A s \in DOMAIN students : students[s].classroomId # req[r].classroomId
           /\ \A d \in BagToSet(ledger) : d.classroomId # req[r].classroomId

----------------------------------------------------------------------------
(* Matching *)

\* C18: a detected face is recognized, as the student with the lowest
\* minDistance, exactly when that distance is at most MATCH_THRESHOLD; above
\* it the face is unknown whatever the roster size, and a runner-up closer
\* than MATCH_GAP only raises the warning
C18_ThresholdOnly ==
    probe.pc # "none" =>
      LET roster == probe.roster
          lowest == Lowest({roster[c] : c \in DOMAIN roster})
      IN /\ probe.match.is_recognized <=> lowest <= MATCH_THRESHOLD
         /\ probe.match.is_recognized
              => /\ probe.match.roll_number \in DOMAIN roster
                 /\ roster[probe.match.roll_number] = lowest
         /\ ~probe.match.is_recognized => probe.match.roll_number = "unknown"
         /\ probe.match.distance = lowest

\* two students within the threshold and closer to each other than the gap:
\* the face is recognized with the warning
C18_Witness ==
    /\ probe.pc = "detected"
    /\ Cardinality(DOMAIN probe.roster) = 2
    /\ probe.match.is_recognized
    /\ probe.match.gapWarning
    /\ probe.detection.status = "matched"

\* C19: the confidence of a detection is the nearest integer to
\* (1 - distance / 0.8) * 100 clamped to 0..100: 100 at distance 0, 0 from
\* distance 0.8 on, 50 at distance 0.40, never higher for a larger distance;
\* the status of the detection follows the decision of the service only
C19_ConfidencePresentationOnly ==
    probe.pc = "detected" =>
      LET d == probe.detection.distance
          c == probe.detection.confidence
      IN /\ c \in 0..100
         /\ (c > 0 /\ c < 100)
              => /\ 4 * c - (400 - 5 * d) <= 2
                 /\ (400 - 5 * d) - 4 * c <= 2
         /\ d = 0 => c = 100
         /\ d >= 80 => c = 0
         /\ d = 40 => c = 50
         /\ \A e \in Distances : e >= d => confidence(e) <= c
         /\ probe.detection.status = "matched" <=> probe.match.is_recognized

\* a face at distance 0.60 is matched and shown with confidence 25
C19_Witness ==
    /\ probe.pc = "detected"
    /\ probe.detection.distance = 60
    /\ probe.detection.confidence = 25
    /\ probe.detection.status = "matched"

----------------------------------------------------------------------------
(* The candidates of an upload *)

\* number of embeddings stored for a student: the list and the legacy one
StoredEmbeddings(s) ==
    Len(students[s].faceDescriptors)
      + (IF students[s].faceDescriptor # NoEmbedding THEN 1 ELSE 0)

\* the students of the classroom an upload is made for
RosterOf(r) ==
    {s \in DOMAIN students : students[s].classroomId = req[r].classroomId}

C20_EmptyRosterNoService ==
    [][\A r \in Reqs :
         /\ (UploadFind(r) /\ RosterOf(r) = {})
             => /\ req'[r].status = "nofaces"
                /\ ~req'[r].called
                /\ session'.reviewMode = session.reviewMode
         /\ (UploadFind(r) /\ req'[r].pc = "u_match")
             => \A s \in RosterOf(r) :
                  StoredEmbeddings(s) > 0
                    => \E f \in req'[r].faces :
                         /\ f.rollNumber = students[s].rollNumber
                         /\ Len(f.descriptors) = StoredEmbeddings(s)
                              \/ Len(f.descriptors) = Len(students[s].faceDescriptors)]_vars
----------------------------------------------------------------------------
(* The samples of a student *)

\* the request in slot r saves the student it has loaded and answers 200
Saved(r, kind) ==
    /\ req[r].kind = kind
    /\ req[r].pc \in {"r_save", "a_save"}
    /\ req'[r].pc = "done" /\ req'[r].status = "ok"

\* the stored document of the student the request in slot r has loaded
Stored(r) == students[req[r].doc.id]

\* C21: a reset-photos request that succeeds leaves the student with the
\* single descriptor that was last in its list and with descriptorCount 1; a
\* reset of a student that a reset left so changes neither the list nor the
\* count; a reset of a student with an empty list is
\* answered with an error and leaves the students as they were.
C21_ResetToLatest ==
    [][\A r \in Reqs :
         /\ Saved(r, "reset") =>
               LET before == Stored(r)
                   after == students'[req[r].doc.id]
               IN /\ Len(before.faceDescriptors) >= 1
                  /\ after.faceDescriptors =
                        <<before.faceDescriptors[Len(before.faceDescriptors)]>>
                  /\ after.descriptorCount = 1
                  /\ (Len(before.faceDescriptors) = 1 /\ before.descriptorCount = 1)
                        => /\ after.faceDescriptors = before.faceDescriptors
                           /\ after.descriptorCount = before.descriptorCount
         /\ (ResetStart(r) /\ "id" \in DOMAIN req'[r]) =>
               /\ req'[r].status = "empty"
               /\ Len(students[req'[r].id].faceDescriptors) = 0
               /\ students' = students
         /\ (ResetStart(r) /\ req'[r].pc = "r_save") =>
               Len(students[req'[r].doc.id].faceDescriptors) >= 1
    ]_vars

\* a second reset of s1 has succeeded, after a first one collapsed a list of
\* several descriptors
C21_Witness ==
    /\ req["a"].kind = "reset" /\ req["a"].status = "ok"
    /\ req["b"].kind = "reset" /\ req["b"].status = "ok"
    /\ students["s1"].v = 2
    /\ students["s1"].faceDescriptors = <<3>>

\* C22: an add-photo request that finds MAX_TRAINING_SAMPLES descriptors or
\* more is answered with the capacity error and leaves the students (list,
\* count and image) as they were, and no request goes on to save at capacity;
\* an add-photo request that succeeds has appended one descriptor at the tail
\* of the stored list and raised descriptorCount by one.
C22_AddWithoutEviction ==
    [][\A r \in Reqs :
         /\ (AddStart(r) /\ req'[r].status = "full") =>
               /\ Len(students[req'[r].id].faceDescriptors) >= MAX_TRAINING_SAMPLES
               /\ students' = students
         /\ (AddStart(r) /\ req'[r].pc = "a_save") =>
               Len(students[req'[r].doc.id].faceDescriptors) < MAX_TRAINING_SAMPLES
         /\ Saved(r, "add") =>
               LET before == Stored(r)
                   after == students'[req[r].doc.id]
               IN /\ \E e \in Embeddings :
                        after.faceDescriptors = Append(before.faceDescriptors, e)
                  /\ after.descriptorCount = before.descriptorCount + 1
    ]_vars

\* the same with the count taken from the list: descriptorCount is the length
\* of the list the request saved
C22_AddAppendsOne ==
    [][\A r \in Reqs :
         /\ (AddStart(r) /\ req'[r].status = "full") =>
               /\ Len(students[req'[r].id].faceDescriptors) >= MAX_TRAINING_SAMPLES
               /\ students' = students
         /\ (AddStart(r) /\ req'[r].pc = "a_save") =>
               Len(students[req'[r].doc.id].faceDescriptors) < MAX_TRAINING_SAMPLES
         /\ Saved(r, "add") =>
               LET before == Stored(r)
                   after == students'[req[r].doc.id]
               IN /\ \E e \in Embeddings :
                        after.faceDescriptors = Append(before.faceDescriptors, e)
                  /\ after.descriptorCount = Len(before.faceDescriptors) + 1
                  /\ after.image = req[r].file
    ]_vars

----------------------------------------------------------------------------
(* The embedding service *)

\* C23: a request that has called the embedding service, for the embedding of
\* one face or for the matches of a group photo, is eventually answered, also
\* when the service never returns.
C23_ServiceCallBounded ==
    \A r \in Reqs : (req[r].pc \in {"e_extract", "u_match"}) ~> (req[r].pc = "done")

\* the same of the single-face call alone, which sets a timer
C23_ExtractBounded ==
    \A r \in Reqs : (req[r].pc = "e_extract") ~> (req[r].pc = "done")

\* the request in slot r is answered in this step because the embedding
\* service failed or the call timed out
ServiceFailed(r) ==
    /\ req[r].pc # "done" /\ req'[r].pc = "done"
    /\ \/ req'[r].status \in {"noface", "timeout"}
       \/ req'[r].kind = "upload" /\ req'[r].status = "error"

\* C24: a request of enrollment, update with a photo, add-photo or group
\* photo upload that ends because the embedding service failed or timed out
\* has written nothing: the students and the attendance records are as they
\* were before the step and the request has written no document in any
\* earlier step.
C24_NoPartialState ==
    [][\A r \in Reqs :
         ServiceFailed(r) => /\ students' = students
                             /\ ledger' = ledger
                             /\ req'[r].writes = 0
                             /\ req[r].writes = 0
    ]_vars

\* an update with a photo and a group photo upload have both ended on a
\* failure of the service
C24_Witness ==
    /\ req["a"].kind = "put" /\ req["a"].status = "noface"
    /\ req["b"].kind = "upload" /\ req["b"].status = "error"

----------------------------------------------------------------------------
(* The student of a reviewed face *)

\* C25: in every state of the review a face that is confirmed has the student
\* the Matcher proposed for it, so that a decision sent with action "confirm"
\* names the proposed student and never one chosen in a correction.
C25_ConfirmedIsProposed ==
    \A i \in Faces :
        Confirmation(i).status = "confirmed"
            => Confirmation(i).studentId = Confirmation(i).originalMatch

----------------------------------------------------------------------------
(* The count of a student's samples *)

\* C26: whenever every request that was started has completed, the
\* descriptorCount of each student is the length of its descriptor list.
C26_CountIsLength ==
    (\A r \in Reqs : req[r].pc \in {"idle", "done"})
        => \A s \in DOMAIN students :
             students[s].descriptorCount = Len(students[s].faceDescriptors)

----------------------------------------------------------------------------
(* The result of a confirm call *)

\* no element of the sequence occurs twice
Distinct(seq) == \A i, j \in DOMAIN seq : seq[i] = seq[j] => i = j

\* C27: the result of a confirm call tells what the call did.  The step that
\* tries Attendance.create lists the student's roll number exactly when it
\* inserts the record, and the record inserted is the one listed; the step that
\* saves a training sample counts one and appends one embedding; every other
\* step of the call leaves records, students, list and count as they are; no
\* roll number is listed twice.
C27_ResultIsWhatWasDone ==
    [][\A r \in Reqs :
         /\ ConfirmCreate(r) =>
               LET q == req[r]
                   record == AttendanceDoc(q.doc.id, q.doc.rollNumber,
                                           q.attendanceDate, q.classroomId,
                                           q.teacherId)
               IN /\ req'[r].trainedCount = q.trainedCount
                  /\ students' = students
                  /\ \/ /\ ledger' = ledger
                        /\ req'[r].markedStudents = q.markedStudents
                     \/ /\ ledger' = ledger (+) SetToBag({record})
                        /\ req'[r].markedStudents =
                              Append(q.markedStudents, q.doc.rollNumber)
         /\ ConfirmSave(r) =>
               LET id == req[r].doc.id
               IN /\ req'[r].trainedCount = req[r].trainedCount + 1
                  /\ req'[r].markedStudents = req[r].markedStudents
                  /\ ledger' = ledger
                  /\ \E e \in Embeddings :
                        students' = [students EXCEPT
                            ![id].faceDescriptors = Append(@, e),
                            ![id].descriptorCount = students'[id].descriptorCount,
                            ![id].v = students'[id].v]
         /\ (InLoop(req[r]) /\ req'[r] # req[r]
                /\ ~ConfirmCreate(r) /\ ~ConfirmSave(r)) =>
               /\ ledger' = ledger /\ students' = students
               /\ req'[r].trainedCount = req[r].trainedCount
               /\ req'[r].markedStudents = req[r].markedStudents
         /\ "markedStudents" \in DOMAIN req'[r] => Distinct(req'[r].markedStudents)
    ]_vars

\* a confirm call has answered with one student marked and two samples
\* added: two faces of its batch were the same student
C27_Witness ==
    \E r \in Reqs :
        /\ req[r].kind = "confirm" /\ req[r].status = "ok"
        /\ Len(req[r].markedStudents) = 1
        /\ req[r].trainedCount = 2

\* C28: a confirm call that is answered with an error has inserted no
\* attendance record and saved no training sample.
C28_ErrorCommitsNothing ==
    \A r \in Reqs :
        (req[r].kind = "confirm" /\ req[r].pc = "done" /\ req[r].status = "error")
            => req[r].writes = 0

\* the same of the calls refused before their loop: for a classroom that does
\* not exist or is not the teacher's
C28_RejectedCommitsNothing ==
    \A r \in Reqs :
        (req[r].kind = "confirm" /\ req[r].pc = "done" /\ req[r].status = "rejected")
            => req[r].writes = 0

\* C29: the batch the Mark Attendance button posts carries, for every
\* corrected face, the addToTraining choice the teacher saved with the
\* correction: a correction saved with the box unchecked is posted with
\* addToTraining = FALSE.
C29_ChoiceIsCommitted ==
    [][\A r \in Reqs :
         (HandleMarkAttendance(r) /\ "batch" \in DOMAIN req'[r]) =>
            \A k \in DOMAIN req'[r].batch :
               LET d == req'[r].batch[k]
               IN d.action = "correct" =>
                    d.addToTraining = session.confirmations[d.faceIndex].addToTraining
    ]_vars

\* the same of the faces the teacher skipped: none of them is posted for
\* training
C29_SkippedNotTrained ==
    [][\A r \in Reqs :
         (HandleMarkAttendance(r) /\ "batch" \in DOMAIN req'[r]) =>
            \A k \in DOMAIN req'[r].batch :
               req'[r].batch[k].action = "skip" => ~req'[r].batch[k].addToTraining
    ]_vars

\* C30: in every review state each face is pending, confirmed, corrected or
\* skipped; a confirmed or corrected face has a student, a skipped face has
\* none, and so every decision of the batch with action confirm or correct
\* names a student.
C30_DecisionsNameStudents ==
    /\ \A i \in DOMAIN session.confirmations :
          LET conf == session.confirmations[i]
          IN /\ conf.status \in {"pending", "confirmed", "corrected", "skipped"}
             /\ conf.status \in {"confirmed", "corrected"} => conf.studentId # "none"
             /\ conf.status = "skipped" => conf.studentId = "none"
    /\ LET batch == allConfirmations(session.confirmations)
       IN \A k \in DOMAIN batch :
            batch[k].action \in {"confirm", "correct"} => batch[k].studentId # "none"

\* a face the service matched has been skipped and another face has been
\* given a student by a correction
C30_Witness ==
    \E i, j \in DOMAIN session.confirmations :
        /\ session.confirmations[i].status = "skipped"
        /\ session.confirmations[i].originalMatch # "none"
        /\ session.confirmations[j].status = "corrected"
        /\ session.confirmations[j].originalMatch = "none"

====
